---- MODULE Spec2Model ----
(***************************************************************************)
(* bencher: versioned record store (linear_results / xy_results), its      *)
(* revert protocol, and the federation of several stores (DbReadBackend).  *)
(*                                                                         *)
(* The repository holds two generations of the write path:                 *)
(*   build = "lib"     : src/src/lib.rs (Config, LinearSetHandle,          *)
(*                       XYLineHandle working on the connection directly)  *)
(*   build = "handles" : src/src/handles.rs + src/src/db.rs                *)
(*                       (handles delegating to DbWriteBackend)            *)
(* Both work on the same schema and the same SQL statements; they differ   *)
(* in how an untagged XY datapoint is versioned.                           *)
(***************************************************************************)
EXTENDS Integers, Sequences, FiniteSets, TLC

VARIABLES build, experiments, linear_results, xy_results,
          log_linear, log_xy, dbs, fed, trip, ret, arg

vars == <<build, experiments, linear_results, xy_results,
          log_linear, log_xy, dbs, fed, trip, ret, arg>>

(***************************************************************************)
(* Bounds and input domains                                                *)
(***************************************************************************)
\* number of result rows a behaviour may insert; a behaviour fills one of the
\* two result tables (no statement of the write path touches both)
MaxRows == 3

Builds == {"lib", "handles"}

\* the experiments table of the store: code -> type (lib.rs test::gen_in_memory_config)
LinearCodes == {"linear_lat_a", "linear_lat_b"}
XYCodes == {"tput_1", "tput_2"}
UnknownCode == "non_linear_lat_a"

\* groups in their sort order (Vec::sort_by_key on the group string)
Groups == <<"get", "put">>
GroupSet == {Groups[i] : i \in 1..Len(Groups)}

\* the (code, group) keys written by the behaviours
LinearKeys == {<<"linear_lat_a", "get">>, <<"linear_lat_a", "put">>,
               <<"linear_lat_b", "get">>}

\* tags a caller supplies; an untagged datapoint gets one from the store
XYWrites == {<<"tput_1", <<0>>>>, <<"tput_1", <<>>>>, <<"tput_2", <<>>>>}
Tags == 0..MaxRows

\* central values (Value::Int); an XY datapoint has an x and a y
Values == {12, 42}
XYValues == {<<1, 10>>, <<2, 20>>}

\* Option<T>: None is <<>>, Some(x) is <<x>>
None == <<>>
Some(x) == <<x>>
IsSome(o) == Len(o) = 1
Unwrap(o) == o[1]

\* to_version arguments of revert
ToVersions == {None} \cup {Some(v) : v \in 0..MaxRows}

Abs(x) == IF x < 0 THEN -x ELSE x

SetMax(S) == CHOOSE x \in S : \A y \in S : y <= x

(***************************************************************************)
(* SQL building blocks                                                     *)
(***************************************************************************)
\* positions of the rows of one key:  where experiment_code = :code and <key> = :key
KeyRows(table, code, key) ==
    {i \in 1..Len(table) : table[i].experiment_code = code /\ table[i].key = key}

\* positions of the rows of one code:  where experiment_code = :code
CodeRows(table, code) ==
    {i \in 1..Len(table) : table[i].experiment_code = code}

\* primary key (experiment_code, key, version)
PrimaryKeyOk(table) ==
    \A i, j \in 1..Len(table) :
        (/\ table[i].experiment_code = table[j].experiment_code
         /\ table[i].key = table[j].key
         /\ table[i].version = table[j].version) => i = j

\* get_new_xy_tag with  select max(tag)  (no + 1)
get_new_xy_tag_max(table, code) ==
    LET rows == CodeRows(table, code)
    IN  IF rows = {} THEN 0
        ELSE SetMax({table[i].key : i \in rows})

\* select max(tag) + 1 from xy_results where experiment_code = :code ; unwrap_or(0)
get_new_xy_tag(table, code) ==
    LET rows == CodeRows(table, code)
    IN  IF rows = {} THEN 0
        ELSE SetMax({table[i].key : i \in rows}) + 1

\* insert into a table declared without its primary key
insert_row_unconstrained(table, row) ==
    Append(table, row)

\* insert into <table> (...) values (...): fails on a primary key conflict
insert_row(table, row) ==
    IF PrimaryKeyOk(Append(table, row)) THEN Append(table, row) ELSE table

(***************************************************************************)
(* Record store: write path                                                *)
(***************************************************************************)
\* DbWriteBackend::get_new_linear_version / LinearSetHandle::get_new_version
get_new_linear_version(table, exp_code, group) ==
    LET rows == KeyRows(table, exp_code, group)
    IN  IF rows = {} THEN 1
        ELSE SetMax({Abs(table[i].version) : i \in rows}) + 1

\* DbWriteBackend::add_linear_datapoint / LinearSetHandle::add_datapoint (lib.rs)
add_linear_datapoint(table, exp_code, group, v) ==
    LET version == get_new_linear_version(table, exp_code, group)
    IN  insert_row(table, [experiment_code |-> exp_code, key |-> group,
                           version |-> version, v_int |-> v])

\* update_abs_version without the key in its where clause
update_abs_version_any_key(table, code, key, v) ==
    [i \in 1..Len(table) |->
        IF i \in CodeRows(table, code) /\ Abs(table[i].version) = v
        THEN [table[i] EXCEPT !.version = Abs(@)]
        ELSE table[i]]

\* update ... set version = abs(version) where <key> and abs(version) = :version
update_abs_version(table, code, key, v) ==
    [i \in 1..Len(table) |->
        IF i \in KeyRows(table, code, key) /\ Abs(table[i].version) = v
        THEN [table[i] EXCEPT !.version = Abs(@)]
        ELSE table[i]]

\* update_negate_newer with  version >= :version
update_negate_newer_inclusive(table, code, key, v) ==
    [i \in 1..Len(table) |->
        IF i \in KeyRows(table, code, key) /\ table[i].version >= v
        THEN [table[i] EXCEPT !.version = -@]
        ELSE table[i]]

\* update_negate_newer with  where experiment_code = :code and version > :version
update_negate_newer_any_key(table, code, key, v) ==
    [i \in 1..Len(table) |->
        IF i \in CodeRows(table, code) /\ table[i].version > v
        THEN [table[i] EXCEPT !.version = -@]
        ELSE table[i]]

\* update ... set version = -version where <key> and version > :version
update_negate_newer(table, code, key, v) ==
    [i \in 1..Len(table) |->
        IF i \in KeyRows(table, code, key) /\ table[i].version > v
        THEN [table[i] EXCEPT !.version = -@]
        ELSE table[i]]

\* update_negate_max with  select max(abs(version))  in the subquery
update_negate_max_abs(table, code, key) ==
    LET rows == KeyRows(table, code, key)
    IN  IF rows = {} THEN table
        ELSE LET m == SetMax({Abs(table[i].version) : i \in rows})
             IN  [i \in 1..Len(table) |->
                     IF i \in rows /\ Abs(table[i].version) = m
                     THEN [table[i] EXCEPT !.version = -@]
                     ELSE table[i]]

\* update ... set version = -version where <key> and version in (select max(version) ...)
update_negate_max(table, code, key) ==
    LET rows == KeyRows(table, code, key)
    IN  IF rows = {} THEN table
        ELSE LET m == SetMax({table[i].version : i \in rows})
             IN  [i \in 1..Len(table) |->
                     IF i \in rows /\ table[i].version = m
                     THEN [table[i] EXCEPT !.version = -@]
                     ELSE table[i]]

\* one autocommitted UPDATE: a primary key conflict fails the statement
execute_update(before, after) ==
    IF PrimaryKeyOk(after) THEN after ELSE before

\* revert_linear_datapoint that first looks for the row to revert to and does
\* nothing when the key has none
revert_linear_datapoint_existing(table, exp_code, group, version) ==
    IF IsSome(version)
    THEN LET v  == Unwrap(version)
             t1 == update_abs_version(table, exp_code, group, v)
         IN  IF \A i \in KeyRows(table, exp_code, group) : Abs(table[i].version) /= v
             THEN table
             ELSE IF ~PrimaryKeyOk(t1) THEN table
             ELSE execute_update(t1, update_negate_newer(t1, exp_code, group, v))
    ELSE execute_update(table, update_negate_max(table, exp_code, group))

\* DbWriteBackend::revert_linear_datapoint / LinearSetHandle::revert (lib.rs)
revert_linear_datapoint(table, exp_code, group, version) ==
    IF IsSome(version)
    THEN LET v  == Unwrap(version)
             t1 == update_abs_version(table, exp_code, group, v)
         IN  IF ~PrimaryKeyOk(t1) THEN table
             ELSE execute_update(t1, update_negate_newer(t1, exp_code, group, v))
    ELSE execute_update(table, update_negate_max(table, exp_code, group))

\* DbWriteBackend::get_new_xy_version
get_new_xy_version(table, exp_code, tag) ==
    LET rows == KeyRows(table, exp_code, tag)
    IN  IF rows = {} THEN 1
        ELSE SetMax({Abs(table[i].version) : i \in rows}) + 1

\* XYLineHandle::tag_datapoint (lib.rs): <<tag, version>> of the row to insert
lib_tag_datapoint(table, exp_code, tag) ==
    IF IsSome(tag)
    THEN <<Unwrap(tag), get_new_xy_version(table, exp_code, Unwrap(tag))>>
    ELSE <<get_new_xy_tag(table, exp_code), 0>>

\* XYLineHandle::add_datapoint (lib.rs)
lib_xy_add_datapoint(table, exp_code, tag, xy) ==
    LET tv == lib_tag_datapoint(table, exp_code, tag)
    IN  insert_row(table, [experiment_code |-> exp_code, key |-> tv[1],
                           version |-> tv[2], x_int |-> xy[1], y_int |-> xy[2]])

\* XYLineHandle::tag_datapoint (handles.rs): the tag of the row to insert
handles_tag_datapoint(table, exp_code, tag) ==
    IF IsSome(tag) THEN Unwrap(tag) ELSE get_new_xy_tag(table, exp_code)

\* DbWriteBackend::add_xy_datapoint (the datapoint is tagged by now)
add_xy_datapoint(table, exp_code, tag, xy) ==
    LET version == get_new_xy_version(table, exp_code, tag)
    IN  insert_row(table, [experiment_code |-> exp_code, key |-> tag,
                           version |-> version, x_int |-> xy[1], y_int |-> xy[2]])

\* XYLineHandle::add_datapoint (handles.rs)
handles_xy_add_datapoint(table, exp_code, tag, xy) ==
    add_xy_datapoint(table, exp_code, handles_tag_datapoint(table, exp_code, tag), xy)

\* revert_xy_datapoint that deletes the rows it should negate
revert_xy_datapoint_delete(table, exp_code, tag, version) ==
    LET rows == KeyRows(table, exp_code, tag)
        gone == IF IsSome(version)
                THEN {i \in rows : table[i].version > Unwrap(version)}
                ELSE {i \in rows : \A j \in rows : table[j].version <= table[i].version}
        keep == [i \in 1..Len(table) |-> i \notin gone]
        pos  == [i \in 0..Len(table) |-> Cardinality({j \in 1..i : keep[j]})]
    IN  [n \in 1..pos[Len(table)] |->
            table[CHOOSE i \in 1..Len(table) : keep[i] /\ pos[i] = n]]

\* DbWriteBackend::revert_xy_datapoint / XYLineHandle::revert (lib.rs)
revert_xy_datapoint(table, exp_code, tag, version) ==
    IF IsSome(version)
    THEN LET v  == Unwrap(version)
             t1 == update_abs_version(table, exp_code, tag, v)
         IN  IF ~PrimaryKeyOk(t1) THEN table
             ELSE execute_update(t1, update_negate_newer(t1, exp_code, tag, v))
    ELSE execute_update(table, update_negate_max(table, exp_code, tag))

\* the BencherResult<()> of revert_linear_datapoint / revert_xy_datapoint:
\* each execute(...)? returns the error of a statement that fails, Ok(()) ends
\* the function
revert_result(table, exp_code, key, version) ==
    IF IsSome(version)
    THEN LET v  == Unwrap(version)
             t1 == update_abs_version(table, exp_code, key, v)
         IN  IF ~PrimaryKeyOk(t1) THEN "Err"
             ELSE IF ~PrimaryKeyOk(update_negate_newer(t1, exp_code, key, v))
                  THEN "Err" ELSE "Ok"
    ELSE IF ~PrimaryKeyOk(update_negate_max(table, exp_code, key))
         THEN "Err" ELSE "Ok"

(***************************************************************************)
(* Record store: read path                                                 *)
(***************************************************************************)
\* MaxVersionRow with the bare columns taken from the first row of the group
MaxVersionRow_first_row(table, code, key) ==
    LET rows == KeyRows(table, code, key)
    IN  table[CHOOSE i \in rows : \A j \in rows : i <= j]

\* MaxVersionRow with  max(abs(version))
MaxVersionRow_abs(table, code, key) ==
    LET rows == KeyRows(table, code, key)
        m    == SetMax({Abs(table[i].version) : i \in rows})
    IN  table[CHOOSE i \in rows : Abs(table[i].version) = m]

\* the row a "select ..., max(version) ... group by <key>" returns for one key:
\* the bare columns come from the row that holds the maximum
MaxVersionRow(table, code, key) ==
    LET rows == KeyRows(table, code, key)
        m    == SetMax({table[i].version : i \in rows})
    IN  table[CHOOSE i \in rows : table[i].version = m]

KeysOf(table, code) == {table[i].key : i \in CodeRows(table, code)}

\* get_linear_datapoints (lib.rs) / DbReadBackend::get_linear_datapoints:
\* one LinearDatapoint per group, sorted by group
get_linear_datapoints(table, code) ==
    LET present == SelectSeq(Groups, LAMBDA g : g \in KeysOf(table, code))
    IN  [i \in 1..Len(present) |->
            [group |-> present[i],
             v     |-> MaxVersionRow(table, code, present[i]).v_int]]

TagSeq == [i \in 1..(MaxRows + 2) |-> i - 1]

\* get_xy_datapoints (lib.rs) / DbReadBackend::get_xy_datapoints:
\* one XYDatapoint per tag, sorted by tag
get_xy_datapoints(table, code) ==
    LET present == SelectSeq(TagSeq, LAMBDA t : t \in KeysOf(table, code))
    IN  [i \in 1..Len(present) |->
            [tag |-> present[i],
             x   |-> MaxVersionRow(table, code, present[i]).x_int,
             y   |-> MaxVersionRow(table, code, present[i]).y_int]]

\* the error a query_row on a NULL aggregate gives (row.get::<usize> of NULL)
Err == "Err"

\* LinearSetHandle::version:  select abs(max(version)) ...
linear_version(table, code, group) ==
    LET rows == KeyRows(table, code, group)
    IN  IF rows = {} THEN Err
        ELSE Abs(SetMax({table[i].version : i \in rows}))

\* XYLineHandle::version:  select abs(max(version)) ...
xy_version(table, code, tag) ==
    LET rows == KeyRows(table, code, tag)
    IN  IF rows = {} THEN Err
        ELSE Abs(SetMax({table[i].version : i \in rows}))

\* the rows of one key, in storage order
KeySeq(table, code, key) ==
    SelectSeq(table, LAMBDA r : r.experiment_code = code /\ r.key = key)

\* LinearSetHandle::versions:  select abs(version) ...
linear_versions(table, code, group) ==
    LET rows == KeySeq(table, code, group)
    IN  [i \in 1..Len(rows) |-> Abs(rows[i].version)]

\* XYLineHandle::versions:  select abs(version) ...
xy_versions(table, code, tag) ==
    LET rows == KeySeq(table, code, tag)
    IN  [i \in 1..Len(rows) |-> Abs(rows[i].version)]

\* select experiment_code, count(*) from xy_results   (no group by): one row,
\* the count of the whole table beside the code of a row SQLite picks; the code
\* is NULL, read as "", when the table is empty
xy_count_rows(xy) ==
    IF xy = <<>> THEN {<<"", 0>>}
    ELSE {<<xy[i].experiment_code, Len(xy)>> : i \in 1..Len(xy)}

\* select experiment_code, count(*) from linear_results group by experiment_code
linear_count_rows(linear) ==
    {<<c, Cardinality(CodeRows(linear, c))>> :
        c \in {linear[i].experiment_code : i \in 1..Len(linear)}}

\* select experiment_code, tag, max(version) from xy_results   (no group by):
\* one row, taken from a row that holds the maximum of the whole table
xy_max_rows(xy) ==
    IF xy = <<>> THEN {""}
    ELSE {xy[i].experiment_code :
             i \in {j \in 1..Len(xy) : \A k \in 1..Len(xy) :
                                          xy[k].version <= xy[j].version}}

\* select experiment_code, v_group, max(version) from linear_results
\* group by experiment_code, v_group: the number of rows returned for a code
linear_max_rows(linear, code) == Cardinality(KeysOf(linear, code))

\* DbReadBackend::status / Config::status: the results the queries can give,
\* each a function from the codes of the experiments table to the two counts
status(exps, linear, xy) ==
    LET codes == {e.experiment_code : e \in exps}
        total == Len(linear) + Len(xy)
    IN  UNION {
          LET counted(c) == {r[2] : r \in {q \in ({r1} \cup linear_count_rows(linear)) :
                                              q[1] = c}}
          IN  {[c \in codes |->
                   [n_datapoints |-> n[c],
                    n_active_datapoints |->
                        (IF r3 = c THEN 1 ELSE 0) + linear_max_rows(linear, c)]] :
                 n \in {f \in [codes -> 0..total] :
                          \A c \in codes :
                             IF counted(c) = {} THEN f[c] = 0
                             ELSE f[c] \in counted(c)}}
          : r1 \in xy_count_rows(xy), r3 \in xy_max_rows(xy)}

(***************************************************************************)
(* Handles                                                                 *)
(***************************************************************************)
\* the experiment types of the configuration (lib.rs test::gen_inner_config)
LinearExperimentTypes == {"Operational Latency"}
XYExperimentTypes == {"Throughput"}

\* DbWriteBackend::code_exists
code_exists(exps, exp_code) ==
    \E e \in exps : e.experiment_code = exp_code

\* Config::get_linear_set_handle (lib.rs) / DbWriteBackend::get_linear_set:
\* TRUE when a handle is returned
get_linear_set_handle(b, exps, code) ==
    IF b = "lib"
    THEN \E e \in exps : /\ e.experiment_code = code
                          /\ e.experiment_type \in LinearExperimentTypes
    ELSE code_exists(exps, code)

\* Config::get_xy_line_handle (lib.rs) / DbWriteBackend::get_xy_line
get_xy_line_handle(b, exps, code) ==
    IF b = "lib"
    THEN \E e \in exps : /\ e.experiment_code = code
                          /\ e.experiment_type \in XYExperimentTypes
    ELSE code_exists(exps, code)

(***************************************************************************)
(* Store federation (DbReadBackend)                                        *)
(***************************************************************************)
\* the stores a federation may be built from, and the codes written to them
Paths == {"a.db", "b.db", "c.db"}
FedCodes == {"tput_1", "linear_lat_a"}

\* the lists of connections handed to from_conns (open_dbs opens the paths it
\* is given one by one: a store may be listed more than once)
ConnLists == UNION {[1..n -> Paths] : n \in 1..Cardinality(Paths)}

\* a connection before setup_db ran on it
InitialDbs == [p \in Paths |-> [tables |-> FALSE, experiments |-> {}]]
\* no federation built yet: call is the list from_conns was given, out its result
NotBuilt == [call |-> <<>>, out |-> [result |-> "none"]]

\* select experiment_code from experiments
CodeSet(db) == {e.experiment_code : e \in db.experiments}

\* setup_db: create table if not exists ...
setup_db(db) == [db EXCEPT !.tables = TRUE]

\* experiment_exists with the label compared before the type
experiment_exists_label_first(exps, exp_type, exp_label, exp_code) ==
    IF \E e \in exps : e.experiment_code = exp_code
    THEN LET e == CHOOSE x \in exps : x.experiment_code = exp_code
         IN  IF e.experiment_label /= exp_label THEN "MismatchedLabel"
             ELSE IF e.experiment_type /= exp_type THEN "MismatchedType"
             ELSE "Ok(true)"
    ELSE "Ok(false)"

\* DbWriteBackend::experiment_exists: "MismatchedType", "MismatchedLabel",
\* "Ok(true)" or "Ok(false)"
experiment_exists(exps, exp_type, exp_label, exp_code) ==
    IF \E e \in exps : e.experiment_code = exp_code
    THEN LET e == CHOOSE x \in exps : x.experiment_code = exp_code
         IN  IF e.experiment_type /= exp_type THEN "MismatchedType"
             ELSE IF e.experiment_label /= exp_label THEN "MismatchedLabel"
             ELSE "Ok(true)"
    ELSE "Ok(false)"

\* WriteConfig::add_linear_set / add_xy_line: the experiments table afterwards
add_experiment(exps, exp_type, exp_label, exp_code) ==
    IF experiment_exists(exps, exp_type, exp_label, exp_code) = "Ok(false)"
    THEN exps \cup {[experiment_code |-> exp_code, experiment_type |-> exp_type,
                     experiment_label |-> exp_label]}
    ELSE exps

\* what WriteConfig::add_linear_set / add_xy_line (handles build) and
\* Config::add_linear_experiment / add_xy_experiment (lib build) return
add_linear_set(b, exps, exp_type, exp_label, exp_code) ==
    LET found == experiment_exists(exps, exp_type, exp_label, exp_code)
    IN  IF found \in {"MismatchedType", "MismatchedLabel"} THEN found
        ELSE IF found = "Ok(true)"
             THEN (IF b = "lib" THEN "Ok" ELSE "DuplicateExperiment")
             ELSE "Ok"

add_xy_line(b, exps, exp_type, exp_label, exp_code) ==
    LET found == experiment_exists(exps, exp_type, exp_label, exp_code)
    IN  IF found \in {"MismatchedType", "MismatchedLabel"} THEN found
        ELSE IF found = "Ok(true)"
             THEN (IF b = "lib" THEN "Ok" ELSE "DuplicateExperiment")
             ELSE "Ok"

\* check_compatible_db: the three tables exist
check_compatible_db(db) == db.tables

\* inverted_map with the stores counted from 1
inverted_map_one_based(stores, conns) ==
    LET holders(c) == {i \in 1..Len(conns) : c \in CodeSet(stores[conns[i]])}
        codes == UNION {CodeSet(stores[conns[i]]) : i \in 1..Len(conns)}
    IN  [c \in codes |-> SetMax(holders(c))]

\* first loop of DbReadBackend::build_code_map: map.insert(code, idx) store by
\* store, a later store replacing the entry of an earlier one (idx is 0-based)
inverted_map(stores, conns) ==
    LET holders(c) == {i \in 1..Len(conns) : c \in CodeSet(stores[conns[i]])}
        codes == UNION {CodeSet(stores[conns[i]]) : i \in 1..Len(conns)}
    IN  [c \in codes |-> SetMax(holders(c)) - 1]

\* all_codes holding only the code set of the store just before idx
all_codes_previous_only(stores, conns, idx) ==
    IF idx = 1 THEN {} ELSE CodeSet(stores[conns[idx - 1]])

\* all_codes when the second loop reaches position idx (1-based)
all_codes(stores, conns, idx) ==
    UNION {CodeSet(stores[conns[i]]) : i \in 1..(idx - 1)}

\* DbReadBackend::build_code_map
build_code_map(stores, conns) ==
    LET clash == {i \in 1..Len(conns) :
                     all_codes(stores, conns, i) \cap CodeSet(stores[conns[i]]) /= {}}
    IN  IF clash = {}
        THEN [result |-> "ok", conns |-> conns,
              code_map |-> inverted_map(stores, conns)]
        ELSE LET idx == CHOOSE i \in clash : \A j \in clash : i <= j
             IN  [result |-> "IncompatibleDbs", db |-> conns[idx],
                  codes |-> all_codes(stores, conns, idx)
                            \cap CodeSet(stores[conns[idx]])]

\* DbReadBackend::from_conns
from_conns(stores, conns) ==
    LET bad == {i \in 1..Len(conns) : ~check_compatible_db(stores[conns[i]])}
    IN  IF bad /= {}
        THEN [result |-> "SchemaMissingTable",
              db |-> conns[CHOOSE i \in bad : \A j \in bad : i <= j]]
        ELSE build_code_map(stores, conns)

\* DbReadBackend::list_codes: the codes of every store appended store by store;
\* the value is the number of times each code occurs in the returned vector
list_codes(stores, conns) ==
    LET codes == UNION {CodeSet(stores[conns[i]]) : i \in 1..Len(conns)}
    IN  [c \in codes |->
            Cardinality({i \in 1..Len(conns) : c \in CodeSet(stores[conns[i]])})]

\* DbReadBackend::get_linear_datapoints / get_xy_datapoints on a built
\* federation: self.dbs[self.code_map[code]] indexes the HashMap, which panics
\* when the code is not a key of it; "Ok" stands for the vector read from the
\* store the index names
fed_get_linear_datapoints(built, code) ==
    IF code \in DOMAIN built.code_map THEN "Ok" ELSE "panic"

fed_get_xy_datapoints(built, code) ==
    IF code \in DOMAIN built.code_map THEN "Ok" ELSE "panic"

(***************************************************************************)
(* The store as a state machine                                            *)
(***************************************************************************)
\* gen_in_memory_config: the experiments the store is created with
InitialExperiments ==
    {[experiment_code |-> c, experiment_type |-> "Operational Latency",
      experiment_label |-> c] : c \in LinearCodes}
    \cup {[experiment_code |-> c, experiment_type |-> "Throughput",
          experiment_label |-> c] : c \in XYCodes}

NRows == Len(linear_results) + Len(xy_results)

\* no call of the configuration made yet; ret holds the last call of
\* add_linear_set, add_xy_line, get_linear_set or get_xy_line and what it
\* returned (see SpecReg)
NoCall == [op |-> "none", exp_type |-> "", exp_label |-> "", exp_code |-> "",
           out |-> ""]

\* no value-level function is under evaluation (see SpecStat)
NoArg == [fn |-> "none"]

\* no round trip under way (see SpecTrip)
NoTrip == [phase |-> "idle", table |-> "none", code |-> "", key |-> <<>>,
           reverts |-> 0]

Init ==
    /\ build \in Builds
    /\ experiments = InitialExperiments
    /\ linear_results = <<>>
    /\ xy_results = <<>>
    /\ log_linear = <<>>
    /\ log_xy = <<>>
    /\ dbs = InitialDbs
    /\ fed = NotBuilt
    /\ trip = NoTrip
    /\ ret = NoCall
    /\ arg = NoArg

\* LinearSetHandle::add_datapoint.  log_linear records the datapoints handed
\* to successful adds, in call order.
LinearAddStep(code, group, v) ==
    /\ NRows < MaxRows
    /\ xy_results = <<>>
    /\ get_linear_set_handle(build, experiments, code)
    /\ linear_results' = add_linear_datapoint(linear_results, code, group, v)
    /\ log_linear' = IF linear_results' = linear_results THEN log_linear
                     ELSE Append(log_linear, [experiment_code |-> code,
                                              key |-> group, value |-> v])
    /\ UNCHANGED <<build, experiments, xy_results, log_xy, dbs, fed>>

\* LinearSetHandle::revert
LinearRevertStep(code, group, version) ==
    /\ get_linear_set_handle(build, experiments, code)
    /\ linear_results' = revert_linear_datapoint(linear_results, code, group, version)
    /\ UNCHANGED <<build, experiments, xy_results, log_linear, log_xy, dbs, fed>>

\* the tag an untagged datapoint is given (both builds read get_new_xy_tag)
AssignedTag(table, code, tag) ==
    IF IsSome(tag) THEN Unwrap(tag) ELSE get_new_xy_tag(table, code)

\* XYLineHandle::add_datapoint of the build in use
xy_add_datapoint(b, table, code, tag, xy) ==
    IF b = "lib"
    THEN lib_xy_add_datapoint(table, code, tag, xy)
    ELSE handles_xy_add_datapoint(table, code, tag, xy)

\* XYLineHandle::add_datapoint.  log_xy records the datapoints handed to
\* successful adds, in call order, with the tag they were stored under.
XYAddStep(code, tag, xy) ==
    /\ NRows < MaxRows
    /\ linear_results = <<>>
    /\ get_xy_line_handle(build, experiments, code)
    /\ xy_results' = xy_add_datapoint(build, xy_results, code, tag, xy)
    /\ log_xy' = IF xy_results' = xy_results THEN log_xy
                 ELSE Append(log_xy, [experiment_code |-> code,
                                      key |-> AssignedTag(xy_results, code, tag),
                                      value |-> xy])
    /\ UNCHANGED <<build, experiments, linear_results, log_linear, dbs, fed>>

\* XYLineHandle::revert
XYRevertStep(code, tag, version) ==
    /\ get_xy_line_handle(build, experiments, code)
    /\ xy_results' = revert_xy_datapoint(xy_results, code, tag, version)
    /\ UNCHANGED <<build, experiments, linear_results, log_linear, log_xy, dbs, fed>>

LinearAdd(code, group, v) ==
    LinearAddStep(code, group, v) /\ UNCHANGED <<trip, ret, arg>>

LinearRevert(code, group, version) ==
    LinearRevertStep(code, group, version) /\ UNCHANGED <<trip, ret, arg>>

XYAdd(code, tag, xy) ==
    XYAddStep(code, tag, xy) /\ UNCHANGED <<trip, ret, arg>>

XYRevert(code, tag, version) ==
    XYRevertStep(code, tag, version) /\ UNCHANGED <<trip, ret, arg>>

Next ==
    \/ \E k \in LinearKeys \cup {<<UnknownCode, "get">>}, v \in Values :
            LinearAdd(k[1], k[2], v)
    \/ \E k \in LinearKeys \cup {<<UnknownCode, "get">>}, version \in ToVersions :
            LinearRevert(k[1], k[2], version)
    \/ \E w \in XYWrites \cup {<<UnknownCode, <<0>>>>}, xy \in XYValues :
            XYAdd(w[1], w[2], xy)
    \/ \E c \in XYCodes \cup {UnknownCode}, t \in Tags, version \in ToVersions :
            XYRevert(c, t, version)

Spec == Init /\ [][Next]_vars

(***************************************************************************)
(* The federation as a state machine: stores are set up and filled through *)
(* WriteConfig, then a DbReadBackend is built from a list of them          *)
(***************************************************************************)
InitFed ==
    /\ build = "handles"
    /\ experiments = InitialExperiments
    /\ linear_results = <<>>
    /\ xy_results = <<>>
    /\ log_linear = <<>>
    /\ log_xy = <<>>
    /\ dbs = InitialDbs
    /\ fed = NotBuilt
    /\ trip = NoTrip
    /\ ret = NoCall
    /\ arg = NoArg

\* DbWriteBackend::new / from_conn
SetupDb(p) ==
    /\ fed = NotBuilt
    /\ ~dbs[p].tables
    /\ dbs' = [dbs EXCEPT ![p] = setup_db(@)]
    /\ UNCHANGED <<build, experiments, linear_results, xy_results,
                   log_linear, log_xy, fed, trip, ret, arg>>

\* WriteConfig::add_linear_set / add_xy_line on the store at p
AddExperiment(p, exp_type, exp_code) ==
    /\ fed = NotBuilt
    /\ dbs[p].tables
    /\ dbs' = [dbs EXCEPT ![p].experiments =
                   add_experiment(@, exp_type, exp_code, exp_code)]
    /\ UNCHANGED <<build, experiments, linear_results, xy_results,
                   log_linear, log_xy, fed, trip, ret, arg>>

\* ReadConfig::from_conn_and_config -> DbReadBackend::from_conns
FromConns(conns) ==
    /\ fed = NotBuilt
    /\ fed' = [call |-> conns, out |-> from_conns(dbs, conns)]
    /\ UNCHANGED <<build, experiments, linear_results, xy_results,
                   log_linear, log_xy, dbs, trip, ret, arg>>

\* DbReadBackend::get_linear_datapoints on the federation that was built
FedGetLinearDatapoints(code) ==
    /\ fed.out.result = "ok"
    /\ ret' = [op |-> "get_linear_datapoints", exp_type |-> "", exp_label |-> "",
               exp_code |-> code, out |-> fed_get_linear_datapoints(fed.out, code)]
    /\ UNCHANGED <<build, experiments, linear_results, xy_results,
                   log_linear, log_xy, dbs, fed, trip, arg>>

\* DbReadBackend::get_xy_datapoints on the federation that was built
FedGetXYDatapoints(code) ==
    /\ fed.out.result = "ok"
    /\ ret' = [op |-> "get_xy_datapoints", exp_type |-> "", exp_label |-> "",
               exp_code |-> code, out |-> fed_get_xy_datapoints(fed.out, code)]
    /\ UNCHANGED <<build, experiments, linear_results, xy_results,
                   log_linear, log_xy, dbs, fed, trip, arg>>

NextFed ==
    \/ \E p \in Paths : SetupDb(p)
    \/ \E p \in Paths, t \in LinearExperimentTypes \cup XYExperimentTypes,
          c \in FedCodes : AddExperiment(p, t, c)
    \/ \E conns \in ConnLists : FromConns(conns)
    \/ \E c \in FedCodes \cup {UnknownCode} : FedGetLinearDatapoints(c)
    \/ \E c \in FedCodes \cup {UnknownCode} : FedGetXYDatapoints(c)

SpecFed == InitFed /\ [][NextFed]_vars

(***************************************************************************)
(* Registration: sets and lines are added to a fresh store, handles are    *)
(* asked for, and datapoints are written through the handles               *)
(***************************************************************************)
RegCodes == {"linear_lat_a", "tput_1"}
Labels == {"System A", "System B"}
RegLinearKeys == {<<c, "get">> : c \in RegCodes}
RegXYWrites == {<<c, <<0>>>> : c \in RegCodes}

InitReg ==
    /\ build \in Builds
    /\ experiments = {}
    /\ linear_results = <<>>
    /\ xy_results = <<>>
    /\ log_linear = <<>>
    /\ log_xy = <<>>
    /\ dbs = InitialDbs
    /\ fed = NotBuilt
    /\ trip = NoTrip
    /\ ret = NoCall
    /\ arg = NoArg

\* WriteConfig::add_linear_set / Config::add_linear_experiment
AddLinearSet(exp_type, exp_label, exp_code) ==
    /\ experiments' = add_experiment(experiments, exp_type, exp_label, exp_code)
    /\ ret' = [op |-> "add_linear_set", exp_type |-> exp_type,
               exp_label |-> exp_label, exp_code |-> exp_code,
               out |-> add_linear_set(build, experiments, exp_type, exp_label,
                                      exp_code)]
    /\ UNCHANGED <<build, linear_results, xy_results, log_linear, log_xy, dbs,
                   fed, trip, arg>>

\* WriteConfig::add_xy_line / Config::add_xy_experiment
AddXYLine(exp_type, exp_label, exp_code) ==
    /\ experiments' = add_experiment(experiments, exp_type, exp_label, exp_code)
    /\ ret' = [op |-> "add_xy_line", exp_type |-> exp_type,
               exp_label |-> exp_label, exp_code |-> exp_code,
               out |-> add_xy_line(build, experiments, exp_type, exp_label,
                                   exp_code)]
    /\ UNCHANGED <<build, linear_results, xy_results, log_linear, log_xy, dbs,
                   fed, trip, arg>>

\* WriteConfig::get_linear_set / Config::get_linear_set_handle
GetLinearSet(exp_code) ==
    /\ ret' = [op |-> "get_linear_set", exp_type |-> "", exp_label |-> "",
               exp_code |-> exp_code,
               out |-> IF get_linear_set_handle(build, experiments, exp_code)
                       THEN "Some" ELSE "None"]
    /\ UNCHANGED <<build, experiments, linear_results, xy_results, log_linear,
                   log_xy, dbs, fed, trip, arg>>

\* WriteConfig::get_xy_line / Config::get_xy_line_handle
GetXYLine(exp_code) ==
    /\ ret' = [op |-> "get_xy_line", exp_type |-> "", exp_label |-> "",
               exp_code |-> exp_code,
               out |-> IF get_xy_line_handle(build, experiments, exp_code)
                       THEN "Some" ELSE "None"]
    /\ UNCHANGED <<build, experiments, linear_results, xy_results, log_linear,
                   log_xy, dbs, fed, trip, arg>>

\* the command line adds a set under a linear experiment type and a line under
\* an XY experiment type (bin.rs)
NextReg ==
    \/ \E t \in LinearExperimentTypes, l \in Labels, c \in RegCodes :
          AddLinearSet(t, l, c)
    \/ \E t \in XYExperimentTypes, l \in Labels, c \in RegCodes : AddXYLine(t, l, c)
    \/ \E c \in RegCodes \cup {UnknownCode} : GetLinearSet(c)
    \/ \E c \in RegCodes \cup {UnknownCode} : GetXYLine(c)
    \/ \E k \in RegLinearKeys, v \in Values : LinearAdd(k[1], k[2], v)
    \/ \E w \in RegXYWrites, xy \in XYValues : XYAdd(w[1], w[2], xy)

SpecReg == InitReg /\ [][NextReg]_vars

(***************************************************************************)
(* Properties of the record store (checked under Spec)                     *)
(***************************************************************************)
XYKeys == {<<c, t>> : c \in XYCodes, t \in Tags}

\* the datapoints current(code) returns for one key
LinearHits(table, code, group) ==
    LET cur == get_linear_datapoints(table, code)
    IN  {i \in DOMAIN cur : cur[i].group = group}

XYHits(table, code, tag) ==
    LET cur == get_xy_datapoints(table, code)
    IN  {i \in DOMAIN cur : cur[i].tag = tag}

\* current(code) holds exactly one datapoint for the key, with central value v
LinearResolvesTo(table, code, group, v) ==
    /\ Cardinality(LinearHits(table, code, group)) = 1
    /\ \A i \in LinearHits(table, code, group) :
           get_linear_datapoints(table, code)[i].v = v

XYResolvesTo(table, code, tag, xy) ==
    /\ Cardinality(XYHits(table, code, tag)) = 1
    /\ \A i \in XYHits(table, code, tag) :
           /\ get_xy_datapoints(table, code)[i].x = xy[1]
           /\ get_xy_datapoints(table, code)[i].y = xy[2]

\* the datapoints handed to the adds of one key, in call order
KeyLog(log, code, key) ==
    SelectSeq(log, LAMBDA e : e.experiment_code = code /\ e.key = key)

AbsVersions(table, code, key) ==
    {Abs(table[i].version) : i \in KeyRows(table, code, key)}

\* the key was written as versions 1..N, N >= 1
WrittenOneToN(table, code, key) ==
    /\ KeyRows(table, code, key) /= {}
    /\ AbsVersions(table, code, key) = 1..Cardinality(KeyRows(table, code, key))

\* C1: in every reachable state, right after a successful add(c, k, v) the
\* result of current(c) holds exactly one datapoint for k, with central value v
\* (k is the tag the store assigned when the XY datapoint came untagged).
C1_AddThenCurrent ==
    /\ \A k \in LinearKeys, v \in Values :
         LET t == add_linear_datapoint(linear_results, k[1], k[2], v)
         IN  (get_linear_set_handle(build, experiments, k[1]) /\ t /= linear_results)
                 => LinearResolvesTo(t, k[1], k[2], v)
    /\ \A w \in XYWrites, xy \in XYValues :
         LET t == xy_add_datapoint(build, xy_results, w[1], w[2], xy)
         IN  (get_xy_line_handle(build, experiments, w[1]) /\ t /= xy_results)
                 => XYResolvesTo(t, w[1], AssignedTag(xy_results, w[1], w[2]), xy)

\* an add landed on a key that had reverted rows, and current shows its value
C1_Witness ==
    \/ \E k \in LinearKeys :
         /\ \E i \in KeyRows(linear_results, k[1], k[2]) : linear_results[i].version < 0
         /\ Len(log_linear) = MaxRows
         /\ log_linear[MaxRows].experiment_code = k[1]
         /\ log_linear[MaxRows].key = k[2]
         /\ LinearResolvesTo(linear_results, k[1], k[2], log_linear[MaxRows].value)
    \/ \E k \in XYKeys :
         /\ \E i \in KeyRows(xy_results, k[1], k[2]) : xy_results[i].version < 0
         /\ Len(log_xy) = MaxRows
         /\ log_xy[MaxRows].experiment_code = k[1]
         /\ log_xy[MaxRows].key = k[2]
         /\ XYResolvesTo(xy_results, k[1], k[2], log_xy[MaxRows].value)

\* the versions of the rows of one key, signed, in storage order
VersionSeq(table, code, key) ==
    LET rows == KeySeq(table, code, key)
    IN  [i \in 1..Len(rows) |-> rows[i].version]

\* C3: for a key written as versions 1..N, in any revert state, and any v in
\* 1..N: after revert(key, to_version = v), version(key) is v and current
\* resolves the key to the value the v-th add wrote.
C3_RevertTo ==
    /\ \A k \in LinearKeys :
         WrittenOneToN(linear_results, k[1], k[2]) =>
           \A v \in 1..Len(KeyLog(log_linear, k[1], k[2])) :
             LET t == revert_linear_datapoint(linear_results, k[1], k[2], Some(v))
             IN  /\ linear_version(t, k[1], k[2]) = v
                 /\ LinearResolvesTo(t, k[1], k[2],
                                     KeyLog(log_linear, k[1], k[2])[v].value)
    /\ \A k \in XYKeys :
         WrittenOneToN(xy_results, k[1], k[2]) =>
           \A v \in 1..Len(KeyLog(log_xy, k[1], k[2])) :
             LET t == revert_xy_datapoint(xy_results, k[1], k[2], Some(v))
             IN  /\ xy_version(t, k[1], k[2]) = v
                 /\ XYResolvesTo(t, k[1], k[2], KeyLog(log_xy, k[1], k[2])[v].value)

\* versions 2 and 3 of a key are reverted and revert(key, to_version = 3)
\* brings the third value back
C3_Witness ==
    \/ \E k \in LinearKeys :
         /\ VersionSeq(linear_results, k[1], k[2]) = <<1, -2, -3>>
         /\ log_linear[2].value /= log_linear[3].value
         /\ LET t == revert_linear_datapoint(linear_results, k[1], k[2], Some(3))
            IN  /\ linear_version(t, k[1], k[2]) = 3
                /\ LinearResolvesTo(t, k[1], k[2], log_linear[3].value)
    \/ \E k \in XYKeys :
         /\ VersionSeq(xy_results, k[1], k[2]) = <<1, -2, -3>>
         /\ log_xy[2].value /= log_xy[3].value
         /\ LET t == revert_xy_datapoint(xy_results, k[1], k[2], Some(3))
            IN  /\ xy_version(t, k[1], k[2]) = 3
                /\ XYResolvesTo(t, k[1], k[2], log_xy[3].value)

\* revert(key, to_version = v) followed by revert(key, none)
LinearRevertToThenUndo(table, code, group, v) ==
    revert_linear_datapoint(revert_linear_datapoint(table, code, group, Some(v)),
                            code, group, None)

XYRevertToThenUndo(table, code, tag, v) ==
    revert_xy_datapoint(revert_xy_datapoint(table, code, tag, Some(v)),
                        code, tag, None)

\* C4 as the specification states it: for a key written as versions 1..N and
\* every v in 2..N, after revert(key, to_version = v) followed by
\* revert(key, none) the current version of the key is v-1.
C4_UndoAfterRevertTo_AsStated ==
    /\ \A k \in LinearKeys :
         WrittenOneToN(linear_results, k[1], k[2]) =>
           \A v \in 2..Len(KeyLog(log_linear, k[1], k[2])) :
             LET t == LinearRevertToThenUndo(linear_results, k[1], k[2], v)
             IN  /\ linear_version(t, k[1], k[2]) = v - 1
                 /\ LinearResolvesTo(t, k[1], k[2],
                                     KeyLog(log_linear, k[1], k[2])[v - 1].value)
    /\ \A k \in XYKeys :
         WrittenOneToN(xy_results, k[1], k[2]) =>
           \A v \in 2..Len(KeyLog(log_xy, k[1], k[2])) :
             LET t == XYRevertToThenUndo(xy_results, k[1], k[2], v)
             IN  /\ xy_version(t, k[1], k[2]) = v - 1
                 /\ XYResolvesTo(t, k[1], k[2],
                                 KeyLog(log_xy, k[1], k[2])[v - 1].value)

\* the versions below v whose row is active (positive)
ActiveBelow(table, code, key, v) ==
    {table[i].version : i \in {j \in KeyRows(table, code, key) :
                                   table[j].version > 0 /\ table[j].version < v}}

\* the version the key is left at: the highest active version below v, and
\* version 1 when no version below v is active
UndoTarget(table, code, key, v) ==
    IF ActiveBelow(table, code, key, v) = {} THEN 1
    ELSE SetMax(ActiveBelow(table, code, key, v))

\* C4: for a key written as versions 1..N and every v in 2..N, after
\* revert(key, to_version = v) followed by revert(key, none) the current version
\* of the key is the highest version below v whose row was active before the
\* two calls (v-1 only when the row of v-1 was active), and version 1 when no
\* row below v was active; current resolves the key to the value of that add.
C4_UndoAfterRevertTo ==
    /\ \A k \in LinearKeys :
         WrittenOneToN(linear_results, k[1], k[2]) =>
           \A v \in 2..Len(KeyLog(log_linear, k[1], k[2])) :
             LET t == LinearRevertToThenUndo(linear_results, k[1], k[2], v)
                 w == UndoTarget(linear_results, k[1], k[2], v)
             IN  /\ linear_version(t, k[1], k[2]) = w
                 /\ LinearResolvesTo(t, k[1], k[2],
                                     KeyLog(log_linear, k[1], k[2])[w].value)
    /\ \A k \in XYKeys :
         WrittenOneToN(xy_results, k[1], k[2]) =>
           \A v \in 2..Len(KeyLog(log_xy, k[1], k[2])) :
             LET t == XYRevertToThenUndo(xy_results, k[1], k[2], v)
                 w == UndoTarget(xy_results, k[1], k[2], v)
             IN  /\ xy_version(t, k[1], k[2]) = w
                 /\ XYResolvesTo(t, k[1], k[2], KeyLog(log_xy, k[1], k[2])[w].value)

\* version 2 of a key is reverted, and revert(key, to_version = 3) followed by
\* revert(key, none) lands on version 1, not on version 2
C4_Witness ==
    \/ \E k \in LinearKeys :
         /\ VersionSeq(linear_results, k[1], k[2]) = <<1, -2, -3>>
         /\ log_linear[1].value /= log_linear[2].value
         /\ LET t == LinearRevertToThenUndo(linear_results, k[1], k[2], 3)
            IN  /\ VersionSeq(t, k[1], k[2]) = <<1, -2, -3>>
                /\ linear_version(t, k[1], k[2]) = 1
    \/ \E k \in XYKeys :
         /\ VersionSeq(xy_results, k[1], k[2]) = <<1, -2, -3>>
         /\ log_xy[1].value /= log_xy[2].value
         /\ LET t == XYRevertToThenUndo(xy_results, k[1], k[2], 3)
            IN  /\ VersionSeq(t, k[1], k[2]) = <<1, -2, -3>>
                /\ xy_version(t, k[1], k[2]) = 1

\* C5: no operation removes or overwrites a stored row: after any sequence of
\* adds and reverts, versions(key) has one entry per successful add to the key,
\* whatever the revert state, and the row of each add still holds, under the
\* code and key of that add, the value that add was given.
C5_AppendOnly ==
    /\ Len(linear_results) = Len(log_linear)
    /\ Len(xy_results) = Len(log_xy)
    /\ \A i \in 1..Len(linear_results) :
         /\ linear_results[i].experiment_code = log_linear[i].experiment_code
         /\ linear_results[i].key = log_linear[i].key
         /\ linear_results[i].v_int = log_linear[i].value
    /\ \A i \in 1..Len(xy_results) :
         /\ xy_results[i].experiment_code = log_xy[i].experiment_code
         /\ xy_results[i].key = log_xy[i].key
         /\ <<xy_results[i].x_int, xy_results[i].y_int>> = log_xy[i].value
    /\ \A k \in LinearKeys :
         Len(linear_versions(linear_results, k[1], k[2]))
             = Len(KeyLog(log_linear, k[1], k[2]))
    /\ \A k \in XYKeys :
         Len(xy_versions(xy_results, k[1], k[2])) = Len(KeyLog(log_xy, k[1], k[2]))

\* a key was added to three times and two of its rows are reverted:
\* versions(key) still lists the three of them
C5_Witness ==
    \/ \E k \in LinearKeys :
         /\ Len(KeyLog(log_linear, k[1], k[2])) = 3
         /\ VersionSeq(linear_results, k[1], k[2]) = <<1, -2, -3>>
         /\ linear_versions(linear_results, k[1], k[2]) = <<1, 2, 3>>
    \/ \E k \in XYKeys :
         /\ Len(KeyLog(log_xy, k[1], k[2])) = 3
         /\ VersionSeq(xy_results, k[1], k[2]) = <<1, -2, -3>>
         /\ xy_versions(xy_results, k[1], k[2]) = <<1, 2, 3>>

\* the version the specification gives the next add to a key
NextVersion(table, code, key) ==
    IF KeyRows(table, code, key) = {} THEN 1
    ELSE SetMax(AbsVersions(table, code, key)) + 1

\* the row an add has just appended is at the version the specification gives
AddedAtNextVersion(before, after) ==
    Len(after) = Len(before) + 1 =>
        LET r == after[Len(after)]
        IN  r.version = NextVersion(before, r.experiment_code, r.key)

\* the absolute versions of every key are exactly 1..N
AllOneToN(table, keys) ==
    \A k \in keys :
        KeyRows(table, k[1], k[2]) /= {} => WrittenOneToN(table, k[1], k[2])

\* C6: every add to a key stores its row at version max(|versions of the
\* key|)+1, or 1 when the key has no row, with a positive sign; so after any
\* sequence of adds and reverts the absolute versions of a key are pairwise
\* distinct and exactly 1..N for N adds, none of them reused.
C6_VersionAllocation ==
    [][/\ AddedAtNextVersion(linear_results, linear_results')
       /\ AddedAtNextVersion(xy_results, xy_results')
       /\ AllOneToN(linear_results', LinearKeys)
       /\ AllOneToN(xy_results', XYKeys)]_vars

\* the part of C6 that holds: rows that were not stored at version 0 are at
\* max(|versions|)+1, and only the lib build stores a row at version 0
VersionAllocationOfTaggedAdds ==
    [][/\ AddedAtNextVersion(linear_results, linear_results')
       /\ (Len(xy_results') = Len(xy_results) + 1
               /\ xy_results'[Len(xy_results')].version /= 0)
             => AddedAtNextVersion(xy_results, xy_results')
       /\ AllOneToN(linear_results', LinearKeys)
       /\ \A k \in XYKeys :
            0 \notin AbsVersions(xy_results', k[1], k[2])
                => AllOneToN(xy_results', {k})
       /\ (\E i \in 1..Len(xy_results') : xy_results'[i].version = 0)
             => build = "lib"]_vars

\* C7: current(code) returns exactly one datapoint per key that has a row
\* under the code and none for the other keys, and the datapoint of a key is
\* the row whose version is algebraically the greatest, whatever its sign; a
\* key whose rows are all negative is returned at its least negative version.
C7_CurrentIsMaxVersion ==
    /\ \A c \in LinearCodes :
         LET cur == get_linear_datapoints(linear_results, c)
         IN  /\ Len(cur) = Cardinality(KeysOf(linear_results, c))
             /\ \A g \in GroupSet :
                  LET rows == KeyRows(linear_results, c, g)
                  IN  IF rows = {} THEN LinearHits(linear_results, c, g) = {}
                      ELSE \E r \in rows :
                             /\ \A j \in rows : linear_results[j].version
                                                   <= linear_results[r].version
                             /\ LinearResolvesTo(linear_results, c, g,
                                                 linear_results[r].v_int)
    /\ \A c \in XYCodes :
         LET cur == get_xy_datapoints(xy_results, c)
         IN  /\ Len(cur) = Cardinality(KeysOf(xy_results, c))
             /\ \A t \in Tags :
                  LET rows == KeyRows(xy_results, c, t)
                  IN  IF rows = {} THEN XYHits(xy_results, c, t) = {}
                      ELSE \E r \in rows :
                             /\ \A j \in rows : xy_results[j].version
                                                   <= xy_results[r].version
                             /\ XYResolvesTo(xy_results, c, t,
                                    <<xy_results[r].x_int, xy_results[r].y_int>>)

\* every row of a key is negative and current still returns the key, with the
\* value of version 1 and not the value of version 2
C7_Witness ==
    \/ \E k \in LinearKeys :
         /\ VersionSeq(linear_results, k[1], k[2]) = <<-1, -2>>
         /\ log_linear[1].value /= log_linear[2].value
         /\ LinearResolvesTo(linear_results, k[1], k[2], log_linear[1].value)
    \/ \E k \in XYKeys :
         /\ VersionSeq(xy_results, k[1], k[2]) = <<-1, -2>>
         /\ log_xy[1].value /= log_xy[2].value
         /\ XYResolvesTo(xy_results, k[1], k[2], log_xy[1].value)

\* what revert(code, key, to_version = v) may change between two tables
RevertToFrame(before, after, code, key, v) ==
    /\ Len(after) = Len(before)
    /\ \A i \in 1..Len(before) :
         /\ after[i] = [before[i] EXCEPT !.version = after[i].version]
         /\ i \notin KeyRows(before, code, key) => after[i] = before[i]
         /\ i \in KeyRows(before, code, key) =>
              /\ Abs(before[i].version) = v => after[i].version = v
              /\ Abs(before[i].version) > v => after[i].version < 0
              /\ Abs(before[i].version) < v => after[i].version = before[i].version

\* C8: revert(code, key, to_version = v) changes nothing but version signs of
\* the rows of (code, key): the row with |version| = v ends at +v, the rows
\* with |version| > v end negative, the rows with |version| < v keep their
\* sign; rows of other keys or codes and all stored values are unchanged.
C8_RevertToFrame ==
    /\ \A k \in LinearKeys, v \in 0..MaxRows :
         RevertToFrame(linear_results,
                       revert_linear_datapoint(linear_results, k[1], k[2], Some(v)),
                       k[1], k[2], v)
    /\ \A k \in XYKeys, v \in 0..MaxRows :
         RevertToFrame(xy_results,
                       revert_xy_datapoint(xy_results, k[1], k[2], Some(v)),
                       k[1], k[2], v)

\* revert(key, to_version = 1) on a key with versions 1 and 2 active, while
\* another key of the same code holds a reverted version 1 that stays reverted
C8_Witness ==
    \/ \E k, o \in LinearKeys :
         /\ k[1] = o[1] /\ k[2] /= o[2]
         /\ VersionSeq(linear_results, k[1], k[2]) = <<1, 2>>
         /\ VersionSeq(linear_results, o[1], o[2]) = <<-1>>
         /\ LET t == revert_linear_datapoint(linear_results, k[1], k[2], Some(1))
            IN  /\ VersionSeq(t, k[1], k[2]) = <<1, -2>>
                /\ VersionSeq(t, o[1], o[2]) = <<-1>>
    \/ \E k, o \in XYKeys :
         /\ k[1] = o[1] /\ k[2] /= o[2]
         /\ VersionSeq(xy_results, k[1], k[2]) = <<1, 2>>
         /\ VersionSeq(xy_results, o[1], o[2]) = <<-1>>
         /\ LET t == revert_xy_datapoint(xy_results, k[1], k[2], Some(1))
            IN  /\ VersionSeq(t, k[1], k[2]) = <<1, -2>>
                /\ VersionSeq(t, o[1], o[2]) = <<-1>>

(***************************************************************************)
(* Round trips: on top of any earlier history of the store, one key that   *)
(* has no row yet is written N times and then reverted with no target      *)
(* version; trip names the key and counts the reverts                      *)
(***************************************************************************)
TripAdds ==
    IF trip.table = "linear"
    THEN Len(KeyLog(log_linear, trip.code, Unwrap(trip.key)))
    ELSE Len(KeyLog(log_xy, trip.code, Unwrap(trip.key)))

\* the store before the round trip starts
Prelude == trip.phase = "idle" /\ Next

\* LinearSetHandle::add_datapoint: the first add to an empty key, or one more
TripLinearAdd(code, group, v) ==
    /\ \/ trip.phase = "idle" /\ KeyRows(linear_results, code, group) = {}
       \/ /\ trip.phase = "adds"
          /\ trip.table = "linear" /\ trip.code = code /\ trip.key = <<group>>
    /\ LinearAddStep(code, group, v)
    /\ trip' = [phase |-> "adds", table |-> "linear", code |-> code,
                key |-> <<group>>, reverts |-> 0]
    /\ UNCHANGED <<ret, arg>>

\* XYLineHandle::add_datapoint: the first add (tagged or not) creates the key,
\* the later ones carry its tag
TripXYAdd(code, tag, xy) ==
    /\ \/ /\ trip.phase = "idle"
          /\ KeyRows(xy_results, code, AssignedTag(xy_results, code, tag)) = {}
       \/ /\ trip.phase = "adds"
          /\ trip.table = "xy" /\ trip.code = code /\ trip.key = tag
    /\ XYAddStep(code, tag, xy)
    /\ trip' = [phase |-> "adds", table |-> "xy", code |-> code,
                key |-> <<AssignedTag(xy_results, code, tag)>>, reverts |-> 0]
    /\ UNCHANGED <<ret, arg>>

\* revert(key, none), at most N-1 times
TripRevert ==
    /\ trip.phase \in {"adds", "reverts"}
    /\ trip.reverts < TripAdds - 1
    /\ \/ trip.table = "linear" /\ LinearRevertStep(trip.code, Unwrap(trip.key), None)
       \/ trip.table = "xy" /\ XYRevertStep(trip.code, Unwrap(trip.key), None)
    /\ trip' = [trip EXCEPT !.phase = "reverts", !.reverts = @ + 1]
    /\ UNCHANGED <<ret, arg>>

NextTrip ==
    \/ Prelude
    \/ \E k \in LinearKeys, v \in Values : TripLinearAdd(k[1], k[2], v)
    \/ \E w \in XYWrites \cup {<<c, <<t>>>> : c \in XYCodes, t \in Tags},
          xy \in XYValues : TripXYAdd(w[1], w[2], xy)
    \/ TripRevert

SpecTrip == Init /\ [][NextTrip]_vars

\* C2: a key with no rows that is given N >= 1 adds of v1..vN and then N-1
\* calls of revert(key, none) resolves to v1 in current, and version(key) is 1.
C2_RoundTrip ==
    (trip.phase /= "idle" /\ trip.reverts = TripAdds - 1) =>
        IF trip.table = "linear"
        THEN /\ LinearResolvesTo(linear_results, trip.code, Unwrap(trip.key),
                    KeyLog(log_linear, trip.code, Unwrap(trip.key))[1].value)
             /\ linear_version(linear_results, trip.code, Unwrap(trip.key)) = 1
        ELSE /\ XYResolvesTo(xy_results, trip.code, Unwrap(trip.key),
                    KeyLog(log_xy, trip.code, Unwrap(trip.key))[1].value)
             /\ xy_version(xy_results, trip.code, Unwrap(trip.key)) = 1

\* the round trips that leave no row of version 0 in the key do return to v1
\* at version 1: C2 fails through the rows of version 0 only
RoundTripWithoutVersionZero ==
    (/\ trip.phase /= "idle" /\ trip.reverts = TripAdds - 1
     /\ 0 \notin AbsVersions(IF trip.table = "linear" THEN linear_results
                             ELSE xy_results, trip.code, Unwrap(trip.key)))
        => IF trip.table = "linear"
           THEN /\ LinearResolvesTo(linear_results, trip.code, Unwrap(trip.key),
                       KeyLog(log_linear, trip.code, Unwrap(trip.key))[1].value)
                /\ linear_version(linear_results, trip.code, Unwrap(trip.key)) = 1
           ELSE /\ XYResolvesTo(xy_results, trip.code, Unwrap(trip.key),
                       KeyLog(log_xy, trip.code, Unwrap(trip.key))[1].value)
                /\ xy_version(xy_results, trip.code, Unwrap(trip.key)) = 1

(***************************************************************************)
(* Properties of the federation (checked under SpecFed)                    *)
(***************************************************************************)
\* the positions of the list from_conns was given
Positions == 1..Len(fed.call)

\* the code set of the store listed at position i
CodesAt(i) == CodeSet(dbs[fed.call[i]])

\* the union of the code sets of the stores listed before position i
CodesBefore(i) == UNION {CodesAt(j) : j \in 1..(i - 1)}

\* from_conns was called on stores that all pass the schema check
BuiltOverCompatible ==
    /\ fed.call /= <<>>
    /\ \A i \in Positions : check_compatible_db(dbs[fed.call[i]])

\* C9: building the federation from stores that all pass the schema check fails
\* with IncompatibleDbs if and only if some code is present in two or more of
\* the listed stores; the error names the first store, in list order, whose
\* code set meets the union of the code sets of the stores before it, and the
\* codes it reports are exactly that intersection.
C9_IncompatibleIffShared ==
    BuiltOverCompatible =>
        /\ fed.out.result = "IncompatibleDbs"
             <=> \E i, j \in Positions : i /= j /\ CodesAt(i) \cap CodesAt(j) /= {}
        /\ fed.out.result = "IncompatibleDbs" =>
             \E i \in Positions :
                /\ CodesBefore(i) \cap CodesAt(i) /= {}
                /\ \A j \in 1..(i - 1) : CodesBefore(j) \cap CodesAt(j) = {}
                /\ fed.out.db = fed.call[i]
                /\ fed.out.codes = CodesBefore(i) \cap CodesAt(i)

\* three different stores are listed, the first two hold different codes, and
\* the third, which shares a code with the first only, is the one reported
C9_Witness ==
    /\ BuiltOverCompatible
    /\ Len(fed.call) = 3
    /\ Cardinality({fed.call[i] : i \in Positions}) = 3
    /\ CodesAt(1) /= {} /\ CodesAt(2) /= {}
    /\ CodesAt(1) \cap CodesAt(2) = {}
    /\ CodesAt(2) \cap CodesAt(3) = {}
    /\ fed.out.result = "IncompatibleDbs"
    /\ fed.out.db = fed.call[3]
    /\ fed.out.codes = CodesAt(1) \cap CodesAt(3)

\* C10: whenever the construction succeeds, every code present in a listed
\* store is mapped by code_map to the one store that holds it, no code is held
\* by two stores, and the federated list_codes returns each code exactly once.
C10_UnambiguousLookup ==
    fed.out.result = "ok" =>
        LET codes == UNION {CodesAt(i) : i \in Positions}
            listed == list_codes(dbs, fed.out.conns)
        IN  /\ fed.out.conns = fed.call
            /\ DOMAIN fed.out.code_map = codes
            /\ \A c \in codes :
                 /\ {i \in Positions : c \in CodesAt(i)} = {fed.out.code_map[c] + 1}
                 /\ c \in CodeSet(dbs[fed.out.conns[fed.out.code_map[c] + 1]])
            /\ DOMAIN listed = codes
            /\ \A c \in codes : listed[c] = 1

\* a federation of three stores was built, the first two stores hold one code
\* each and the index sends each code to its store
C10_Witness ==
    /\ fed.out.result = "ok"
    /\ Len(fed.call) = 3
    /\ CodesAt(1) /= {} /\ CodesAt(2) /= {}
    /\ \A c \in CodesAt(1) : fed.out.code_map[c] = 0
    /\ \A c \in CodesAt(2) : fed.out.code_map[c] = 1

(***************************************************************************)
(* Properties of registration and handles (checked under SpecReg)          *)
(***************************************************************************)
\* the step is a call of add_linear_set or add_xy_line
AddCalled ==
    ret' /= ret /\ ret'.op \in {"add_linear_set", "add_xy_line"}

\* the step leaves the experiments table and every result row as they were
StoreUntouched ==
    /\ experiments' = experiments
    /\ linear_results' = linear_results
    /\ xy_results' = xy_results

\* C11: add_linear_set / add_xy_line with a code that exists under a different
\* type fails with the mismatched-type error, and with the same type but a
\* different label fails with the mismatched-label error (the type is looked at
\* first); either way the experiments table and all result rows are unchanged.
C11_MismatchRejected ==
    [][AddCalled =>
          \A e \in experiments :
             e.experiment_code = ret'.exp_code =>
                /\ e.experiment_type /= ret'.exp_type
                      => ret'.out = "MismatchedType" /\ StoreUntouched
                /\ (/\ e.experiment_type = ret'.exp_type
                    /\ e.experiment_label /= ret'.exp_label)
                      => ret'.out = "MismatchedLabel" /\ StoreUntouched]_vars

\* a code that holds datapoints was added again with another type and another
\* label: the call gave the mismatched-type error and the row is as it was
C11_Witness ==
    /\ ret.op \in {"add_linear_set", "add_xy_line"}
    /\ ret.out = "MismatchedType"
    /\ \E e \in experiments :
          /\ e.experiment_code = ret.exp_code
          /\ e.experiment_type /= ret.exp_type
          /\ e.experiment_label /= ret.exp_label
    /\ \/ \E i \in 1..Len(linear_results) :
             linear_results[i].experiment_code = ret.exp_code
       \/ \E i \in 1..Len(xy_results) : xy_results[i].experiment_code = ret.exp_code

\* the step adds again a code that exists with the same type and label
ReAddCalled ==
    /\ AddCalled
    /\ \E e \in experiments :
          /\ e.experiment_code = ret'.exp_code
          /\ e.experiment_type = ret'.exp_type
          /\ e.experiment_label = ret'.exp_label

\* C12: adding again an existing code with the same type and the same label
\* is a no-op: the call returns no error and the store is left unchanged.
C12_ReAddIsNoOp ==
    [][ReAddCalled => ret'.out = "Ok" /\ StoreUntouched]_vars

\* what does hold of such a call: the store is left unchanged, and the call
\* returns an error in the handles build only (DuplicateExperiment)
ReAddLeavesStoreUnchanged ==
    [][ReAddCalled =>
          /\ StoreUntouched
          /\ ret'.out = IF build = "lib" THEN "Ok" ELSE "DuplicateExperiment"]_vars

\* the code was added with add_linear_set: sets are added under the linear
\* experiment types and lines under the XY ones (NextReg)
CreatedAsLinearSet(exp_code) ==
    \E e \in experiments : /\ e.experiment_code = exp_code
                           /\ e.experiment_type \in LinearExperimentTypes

\* C14: get_linear_set(code) returns a handle exactly for the codes that were
\* created as linear sets: none for a code never added as a linear set, one for
\* every code added with add_linear_set.
C14_LinearHandleIffLinearSet ==
    ret.op = "get_linear_set" =>
        (ret.out = "Some" <=> CreatedAsLinearSet(ret.exp_code))

\* what does hold: the lib build looks at the type of the code, the handles
\* build gives a handle for every code of the experiments table
LinearHandleByBuild ==
    ret.op = "get_linear_set" =>
        (ret.out = "Some" <=>
            IF build = "lib" THEN CreatedAsLinearSet(ret.exp_code)
            ELSE \E e \in experiments : e.experiment_code = ret.exp_code)

\* the keys of a code whose maximum version is positive, in either table
ActiveKeys(code) ==
    {k \in KeysOf(linear_results, code) :
        MaxVersionRow(linear_results, code, k).version > 0}
    \cup {k \in KeysOf(xy_results, code) :
             MaxVersionRow(xy_results, code, k).version > 0}

\* C13: status reports, for every registered code c and each code exactly
\* once, n_datapoints = the number of rows ever written under c and
\* n_active_datapoints = the number of keys of c whose maximum version is
\* positive; both are 0 for a code with no datapoints.
C13_StatusCounts ==
    \A st \in status(experiments, linear_results, xy_results) :
       /\ DOMAIN st = {e.experiment_code : e \in experiments}
       /\ \A c \in DOMAIN st :
            /\ st[c].n_datapoints = Cardinality(CodeRows(linear_results, c))
                                      + Cardinality(CodeRows(xy_results, c))
            /\ st[c].n_active_datapoints = Cardinality(ActiveKeys(c))

\* what does hold: every registered code is reported once, the codes with no
\* datapoints at 0 and 0, and the counts of a store that holds linear rows only
\* are the rows of the code and the keys of the code, reverted or not
StatusOfLinearRows ==
    \A st \in status(experiments, linear_results, xy_results) :
       /\ DOMAIN st = {e.experiment_code : e \in experiments}
       /\ \A c \in DOMAIN st :
            /\ (CodeRows(linear_results, c) = {} /\ CodeRows(xy_results, c) = {})
                  => st[c].n_datapoints = 0 /\ st[c].n_active_datapoints = 0
            /\ xy_results = <<>> =>
                  /\ st[c].n_datapoints = Cardinality(CodeRows(linear_results, c))
                  /\ st[c].n_active_datapoints
                        = Cardinality(KeysOf(linear_results, c))

(***************************************************************************)
(* More properties of the record store (checked under Spec)                *)
(***************************************************************************)
\* n untagged adds of the same point, one after the other
RECURSIVE UntaggedAdds(_, _, _, _)
UntaggedAdds(b, table, code, n) ==
    IF n = 0 THEN table
    ELSE xy_add_datapoint(b, UntaggedAdds(b, table, code, n - 1), code, None,
                          <<1, 10>>)

\* the tags of the rows of a code, in storage order
TagsStored(table, code) ==
    LET rows == SelectSeq(table, LAMBDA r : r.experiment_code = code)
    IN  [i \in 1..Len(rows) |-> rows[i].key]

\* C15: an XY datapoint added without a tag is stored under tag max(tags of
\* the code)+1, or 0 when the code has no rows; no row of the code has that tag
\* before, so the add creates a new key; successive untagged adds to an empty
\* line get the tags 0, 1, 2, ... in order.
C15_UntaggedGetsNextTag ==
    \A c \in XYCodes, xy \in XYValues :
       LET t == xy_add_datapoint(build, xy_results, c, None, xy)
           r == t[Len(t)]
       IN  /\ Len(t) = Len(xy_results) + 1
           /\ r.experiment_code = c
           /\ r.key = IF CodeRows(xy_results, c) = {} THEN 0
                      ELSE SetMax({xy_results[i].key : i \in CodeRows(xy_results, c)}) + 1
           /\ KeyRows(xy_results, c, r.key) = {}
           /\ Cardinality(KeysOf(t, c)) = Cardinality(KeysOf(xy_results, c)) + 1
           /\ CodeRows(xy_results, c) = {} =>
                 \A n \in 0..MaxRows :
                    TagsStored(UntaggedAdds(build, xy_results, c, n), c)
                        = [i \in 1..n |-> i - 1]

\* a line holds two versions of tag 0 and a row of tag 1; the next untagged
\* datapoint goes to tag 2, a new key
C15_Witness ==
    \E c \in XYCodes :
       /\ TagsStored(xy_results, c) \in {<<0, 0, 1>>, <<0, 1, 0>>}
       /\ LET t == xy_add_datapoint(build, xy_results, c, None, <<1, 10>>)
          IN  TagsStored(t, c) = Append(TagsStored(xy_results, c), 2)

(***************************************************************************)
(* Reads through the federation (checked under SpecFed)                    *)
(***************************************************************************)
\* the last call was a federated read of the datapoints of a code that none
\* of the listed stores contains
ReadOfAbsentCode ==
    /\ ret.op \in {"get_linear_datapoints", "get_xy_datapoints"}
    /\ \A i \in Positions : ret.exp_code \notin CodesAt(i)

\* C16: a federated read of the current datapoints of a code that no store
\* contains returns a not-found error value to the caller; it does not abort
\* the process.
C16_AbsentCodeIsNotFound ==
    ReadOfAbsentCode => ret.out = "NotFound"

\* what does hold: the read of a code some store contains goes through, the
\* read of any other code panics
FedReadByCode ==
    ret.op \in {"get_linear_datapoints", "get_xy_datapoints"} =>
        ret.out = IF \E i \in Positions : ret.exp_code \in CodesAt(i)
                  THEN "Ok" ELSE "panic"

\* the keys of a revert call: those the behaviours write and one more group
\* and tag per code
RevertLinearKeys == {<<c, g>> : c \in LinearCodes, g \in GroupSet}
RevertXYKeys == {<<c, t>> : c \in XYCodes, t \in 0..MaxRows + 1}

\* C17: revert on a key that has no rows, with or without a target version,
\* succeeds and leaves the store unchanged (revert writes one table only, and
\* that table comes back as it was).
C17_RevertOfEmptyKey ==
    /\ \A k \in RevertLinearKeys, version \in ToVersions :
         KeyRows(linear_results, k[1], k[2]) = {} =>
            /\ revert_result(linear_results, k[1], k[2], version) = "Ok"
            /\ revert_linear_datapoint(linear_results, k[1], k[2], version)
                 = linear_results
    /\ \A k \in RevertXYKeys, version \in ToVersions :
         KeyRows(xy_results, k[1], k[2]) = {} =>
            /\ revert_result(xy_results, k[1], k[2], version) = "Ok"
            /\ revert_xy_datapoint(xy_results, k[1], k[2], version) = xy_results

\* a key without rows beside a key of the same code with an active row 2, on
\* which revert(to 1) and revert(none) are called
C17_Witness ==
    \E k \in RevertLinearKeys, o \in LinearKeys :
        /\ k[1] = o[1] /\ k[2] /= o[2]
        /\ KeyRows(linear_results, k[1], k[2]) = {}
        /\ VersionSeq(linear_results, o[1], o[2]) = <<1, 2>>
        /\ revert_linear_datapoint(linear_results, k[1], k[2], Some(1)) = linear_results
        /\ revert_linear_datapoint(linear_results, k[1], k[2], None) = linear_results
        /\ revert_result(linear_results, k[1], k[2], None) = "Ok"

(***************************************************************************)
(* Sample statistics (stat.rs)                                             *)
(*                                                                         *)
(* integer_percentile computes its index in f64.  A positive f64 is        *)
(* modelled by its binary digits: [exp |-> e, bits |-> <<b1, ..., b53>>]   *)
(* with b1 = 1 stands for the sum of b_i * 2^(e + 1 - i); zero is the      *)
(* record with no bits.  Division and multiplication give the exact        *)
(* result rounded once to the nearest f64, ties to even, as IEEE 754 does. *)
(***************************************************************************)
\* f64::MANTISSA_DIGITS
MantissaDigits == 53

F64Zero == [exp |-> 0, bits |-> <<>>]

\* digits are handled sixteen at a time
LimbDigits == 16
Limb == 65536

RECURSIVE Pow2(_)
Pow2(k) == IF k = 0 THEN 1 ELSE 2 * Pow2(k - 1)

\* the natural number of a sequence of binary digits
RECURSIVE FromBinary(_)
FromBinary(bits) ==
    IF bits = <<>> THEN 0
    ELSE 2 * FromBinary(SubSeq(bits, 1, Len(bits) - 1)) + bits[Len(bits)]

\* the binary digits of a sequence of limbs, most significant first
BitsOfLimbs(limbs) ==
    [i \in 1..(LimbDigits * Len(limbs)) |->
        (limbs[((i - 1) \div LimbDigits) + 1]
            \div Pow2(LimbDigits - 1 - ((i - 1) % LimbDigits))) % 2]

\* the limbs of a sequence of binary digits, zeros added in front
LimbsOfBits(bits) ==
    LET count == (Len(bits) + LimbDigits - 1) \div LimbDigits
        pad   == count * LimbDigits - Len(bits)
        wide  == [i \in 1..(count * LimbDigits) |->
                    IF i <= pad THEN 0 ELSE bits[i - pad]]
    IN  [j \in 1..count |->
            FromBinary(SubSeq(wide, LimbDigits * (j - 1) + 1, LimbDigits * j))]

\* the next k limbs of the binary expansion of r / d, for 0 <= r < d
RECURSIVE DivLimbs(_, _, _)
DivLimbs(r, d, k) ==
    IF k = 0 THEN <<>>
    ELSE <<(r * Limb) \div d>> \o DivLimbs((r * Limb) % d, d, k - 1)

\* what is left of r / d after k limbs
RECURSIVE DivRem(_, _, _)
DivRem(r, d, k) ==
    IF k = 0 THEN r ELSE DivRem((r * Limb) % d, d, k - 1)

\* the limbs of n * limbs[1..i] + carry
RECURSIVE MulLimbs(_, _, _, _)
MulLimbs(n, limbs, i, carry) ==
    IF i = 0 THEN <<carry>>
    ELSE LET t == n * limbs[i] + carry
         IN  MulLimbs(n, limbs, i - 1, t \div Limb) \o <<t % Limb>>

\* the digits from the first 1 on
StripZeros(bits) ==
    LET ones == {i \in 1..Len(bits) : bits[i] = 1}
    IN  IF ones = {} THEN <<>>
        ELSE SubSeq(bits, CHOOSE i \in ones : \A j \in ones : i <= j, Len(bits))

\* round the digits (leading digit 1, exponent e of the leading digit) to
\* MantissaDigits digits: to nearest, ties to even; sticky tells that more
\* non-zero digits follow those given
RoundNearestEven(e, digits, sticky) ==
    LET m      == MantissaDigits
        width  == IF Len(digits) > m + 1 THEN Len(digits) ELSE m + 1
        padded == [i \in 1..width |-> IF i <= Len(digits) THEN digits[i] ELSE 0]
        keep   == SubSeq(padded, 1, m)
        round  == padded[m + 1]
        more   == sticky \/ \E i \in (m + 2)..width : padded[i] = 1
        up     == round = 1 /\ (more \/ keep[m] = 1)
        zeros  == {i \in 1..m : keep[i] = 0}
    IN  IF ~up THEN [exp |-> e, bits |-> keep]
        ELSE IF zeros = {}
             THEN [exp |-> e + 1, bits |-> [i \in 1..m |-> IF i = 1 THEN 1 ELSE 0]]
             ELSE LET j == CHOOSE i \in zeros : \A k \in zeros : k <= i
                  IN  [exp |-> e,
                       bits |-> [i \in 1..m |->
                                   IF i < j THEN keep[i] ELSE IF i = j THEN 1 ELSE 0]]

\* the least k with p * 2^k >= d
RECURSIVE Normalise(_, _)
Normalise(p, d) == IF p >= d THEN 0 ELSE 1 + Normalise(2 * p, d)

\* (p as f64) / (d as f64) for integers 0 <= p <= d, d > 0
f64_div(p, d) ==
    IF p = 0 THEN F64Zero
    ELSE LET k     == Normalise(p, d)
             r     == p * Pow2(k) - d
             limbs == (MantissaDigits + LimbDigits) \div LimbDigits
         IN  RoundNearestEven(-k, <<1>> \o BitsOfLimbs(DivLimbs(r, d, limbs)),
                              DivRem(r, d, limbs) /= 0)

\* (n as f64) * x for an integer 0 <= n < 2^15
f64_mul(n, x) ==
    IF n = 0 \/ x = F64Zero THEN F64Zero
    ELSE LET limbs  == LimbsOfBits(x.bits)
             digits == StripZeros(BitsOfLimbs(MulLimbs(n, limbs, Len(limbs), 0)))
         IN  RoundNearestEven(x.exp + Len(digits) - MantissaDigits, digits, FALSE)

\* x.ceil() as usize
f64_ceil(x) ==
    IF x = F64Zero THEN 0
    ELSE IF x.exp < 0 THEN 1
    ELSE LET whole == FromBinary(SubSeq(x.bits, 1, x.exp + 1))
         IN  IF \E i \in (x.exp + 2)..MantissaDigits : x.bits[i] = 1
             THEN whole + 1 ELSE whole

\* stat.rs integer_percentile (sequences are 1-based)
integer_percentile(sorted_sample, percentile) ==
    LET len == Len(sorted_sample)
        n   == f64_ceil(f64_mul(len, f64_div(percentile, 100)))
    IN  IF n < len THEN sorted_sample[n + 1] ELSE sorted_sample[len]

\* stat.rs integer_median
integer_median(sorted_sample) == integer_percentile(sorted_sample, 50)

(***************************************************************************)
(* Datapoint values (value_model.rs; model.rs is the lib build's copy)     *)
(*                                                                         *)
(* Value::Int(i) is <<"Int", i>>, Value::Float(f) is <<"Float", f>>;       *)
(* Either::Left((l, u)) is <<"Left", l, u>>, Either::Right <<"Right", ..>>.*)
(* A BTreeMap is a function on the set of its keys.                        *)
(***************************************************************************)
\* enum Confidence
Confidences == {"One", "Five", "Ten", "TwentyFive"}

\* const SUPPORTED_CONFIDENCES
SUPPORTED_CONFIDENCES == <<"One", "Five", "Ten", "TwentyFive">>

\* try_from with the arm  50 => Ok(Confidence::TwentyFive)  added
try_from_with_median(c) ==
    CASE c \in {1, 99}      -> [result |-> "Ok", confidence |-> "One"]
      [] c \in {5, 95}      -> [result |-> "Ok", confidence |-> "Five"]
      [] c \in {10, 90}     -> [result |-> "Ok", confidence |-> "Ten"]
      [] c \in {25, 50, 75} -> [result |-> "Ok", confidence |-> "TwentyFive"]
      [] OTHER              -> [result |-> "InvalidConfidence", c |-> c]

\* impl TryFrom<usize> for Confidence (value_model.rs), Confidence::new (model.rs)
try_from(c) ==
    CASE c \in {1, 99}  -> [result |-> "Ok", confidence |-> "One"]
      [] c \in {5, 95}  -> [result |-> "Ok", confidence |-> "Five"]
      [] c \in {10, 90} -> [result |-> "Ok", confidence |-> "Ten"]
      [] c \in {25, 75} -> [result |-> "Ok", confidence |-> "TwentyFive"]
      [] OTHER          -> [result |-> "InvalidConfidence", c |-> c]

\* impl From<Confidence> for usize
usize_from(confidence) ==
    CASE confidence = "One"        -> 1
      [] confidence = "Five"       -> 5
      [] confidence = "Ten"        -> 10
      [] confidence = "TwentyFive" -> 25

ValueInt(i) == <<"Int", i>>
ValueFloat(f) == <<"Float", f>>
Left(lower, upper) == <<"Left", lower, upper>>
Right(lower, upper) == <<"Right", lower, upper>>

\* Value::is_int
is_int(v) == v[1] = "Int"

\* BTreeMap::insert
insert(map, k, val) ==
    [c \in DOMAIN map \cup {k} |-> IF c = k THEN val ELSE map[c]]

\* BTreeMap::get(..).cloned()
get(map, k) == IF k \in DOMAIN map THEN Some(map[k]) ELSE None

\* the band check of add_confidence / add_x_confidence / add_y_confidence
\* without the test of the central value: the bounds are stored as they come
add_band_unchecked(central, bands, confidence, values) ==
    [result |-> "Ok",
     bands  |-> insert(bands, confidence,
                       IF values[1] = "Left"
                       THEN <<ValueInt(values[2]), ValueInt(values[3])>>
                       ELSE <<ValueFloat(values[2]), ValueFloat(values[3])>>)]

\* the body shared by LinearDatapoint::add_confidence and
\* XYDatapoint::add_x_confidence / add_y_confidence: central is self.v, self.x
\* or self.y, bands the map written
add_band(central, bands, confidence, values) ==
    IF is_int(central)
    THEN IF values[1] = "Left"
         THEN [result |-> "Ok",
               bands  |-> insert(bands, confidence,
                                 <<ValueInt(values[2]), ValueInt(values[3])>>)]
         ELSE [result |-> "MismatchedBarTypes", bands |-> bands]
    ELSE IF values[1] = "Right"
         THEN [result |-> "Ok",
               bands  |-> insert(bands, confidence,
                                 <<ValueFloat(values[2]), ValueFloat(values[3])>>)]
         ELSE [result |-> "MismatchedBarTypes", bands |-> bands]

\* LinearDatapoint::new
LinearDatapoint_new(group, v) ==
    [group |-> group, v |-> v, v_confidence |-> <<>>, tag |-> None]

\* LinearDatapoint::add_confidence (value_model.rs)
add_confidence(datapoint, confidence, values) ==
    LET r == add_band(datapoint.v, datapoint.v_confidence, confidence, values)
    IN  [result    |-> r.result,
         datapoint |-> [datapoint EXCEPT !.v_confidence = r.bands]]

\* LinearDatapoint::get_confidence
get_confidence(datapoint, confidence) == get(datapoint.v_confidence, confidence)

\* sample.sort_unstable()
sort_unstable(sample) == SortSeq(sample, LAMBDA a, b : a < b)

\* the loop of from_sample_i64_median over SUPPORTED_CONFIDENCES[i..]
RECURSIVE add_sample_confidences(_, _, _)
add_sample_confidences(datapoint, sample, i) ==
    IF i > Len(SUPPORTED_CONFIDENCES) THEN datapoint
    ELSE LET confidence == SUPPORTED_CONFIDENCES[i]
             lower == integer_percentile(sample, usize_from(confidence))
             upper == integer_percentile(sample, 100 - usize_from(confidence))
             added == add_confidence(datapoint, confidence, Left(lower, upper))
         IN  add_sample_confidences(added.datapoint, sample, i + 1)

\* LinearDatapoint::from_sample_i64_median (from_sample_i64 in model.rs)
from_sample_i64_median(group, sample) ==
    IF Len(sample) = 0 THEN None
    ELSE LET sorted == sort_unstable(sample)
         IN  Some(add_sample_confidences(
                    LinearDatapoint_new(group, ValueInt(integer_median(sorted))),
                    sorted, 1))

(***************************************************************************)
(* The percentile functions applied to drawn samples                       *)
(***************************************************************************)
\* samples of 1..MaxSampleLen values, and the sample of the tests
MaxSampleLen == 25
TestSampleLen == 100
SampleLens == 1..MaxSampleLen \cup {TestSampleLen}
Percentiles == 0..100

\* (0..n).collect(), and the same values in descending order
Ascending(n) == [i \in 1..n |-> i - 1]
Descending(n) == [i \in 1..n |-> n - i]

StatArgs ==
    {[fn |-> "integer_percentile", sorted_sample |-> Ascending(n), percentile |-> p] :
        n \in SampleLens, p \in Percentiles}
    \cup {[fn |-> "from_sample_i64_median", sample |-> s] :
            s \in {Ascending(n) : n \in SampleLens}
                  \cup {Descending(n) : n \in SampleLens}}

InitStat ==
    /\ build \in Builds
    /\ experiments = InitialExperiments
    /\ linear_results = <<>>
    /\ xy_results = <<>>
    /\ log_linear = <<>>
    /\ log_xy = <<>>
    /\ dbs = InitialDbs
    /\ fed = NotBuilt
    /\ trip = NoTrip
    /\ ret = NoCall
    /\ arg \in StatArgs

\* stat::integer_percentile(&sorted_sample, percentile)
IntegerPercentile ==
    /\ arg.fn = "integer_percentile" /\ ret = NoCall
    /\ ret' = [op  |-> "integer_percentile",
               out |-> integer_percentile(arg.sorted_sample, arg.percentile)]
    /\ UNCHANGED <<build, experiments, linear_results, xy_results, log_linear,
                   log_xy, dbs, fed, trip, arg>>

\* LinearDatapoint::from_sample_i64_median("", &mut sample)
FromSampleI64Median ==
    /\ arg.fn = "from_sample_i64_median" /\ ret = NoCall
    /\ ret' = [op  |-> "from_sample_i64_median",
               out |-> from_sample_i64_median("", arg.sample)]
    /\ UNCHANGED <<build, experiments, linear_results, xy_results, log_linear,
                   log_xy, dbs, fed, trip, arg>>

NextStat ==
    \/ IntegerPercentile
    \/ FromSampleI64Median

SpecStat == InitStat /\ [][NextStat]_vars

\* the 0-based index  min(ceil(n * p / 100), n - 1)  in exact arithmetic
NearestRank(n, p) ==
    LET c == (n * p + 99) \div 100
    IN  IF c < n - 1 THEN c ELSE n - 1

\* C18: for a non-empty sorted sample s of length n and a percentile p in
\* 0..100, percentile(s, p) is s[min(ceil(n*p/100), n-1)] (0-based); for
\* s = [0..99] it is 50, 1 and 99 for p = 50, 1 and 99, and the datapoint built
\* from that sample has the median 50.
C18_NearestRank ==
    /\ ret.op = "integer_percentile" =>
         /\ ret.out = arg.sorted_sample[
                        NearestRank(Len(arg.sorted_sample), arg.percentile) + 1]
         /\ (arg.sorted_sample = Ascending(TestSampleLen)
               /\ arg.percentile \in {1, 50, 99}) => ret.out = arg.percentile
    /\ (ret.op = "from_sample_i64_median"
          /\ Len(arg.sample) = TestSampleLen) => ret.out[1].v = ValueInt(50)

\* the index computed in f64 is the exact one or the one after it, and it is
\* the exact one for the sample of 100 values at the percentiles of the bands
\* and of the median
PercentileWithinOne ==
    /\ ret.op = "integer_percentile" =>
         LET s == arg.sorted_sample
             k == NearestRank(Len(s), arg.percentile)
         IN  /\ ret.out \in {s[k + 1], s[IF k + 2 <= Len(s) THEN k + 2 ELSE Len(s)]}
             /\ (Len(s) = TestSampleLen
                   /\ arg.percentile \in {1, 5, 10, 25, 50, 75, 90, 95, 99})
                  => ret.out = arg.percentile
    /\ (ret.op = "from_sample_i64_median"
          /\ Len(arg.sample) = TestSampleLen) =>
         /\ ret.out[1].v = ValueInt(50)
         /\ get_confidence(ret.out[1], "One") = Some(<<ValueInt(1), ValueInt(99)>>)
         /\ get_confidence(ret.out[1], "TwentyFive") = Some(<<ValueInt(25), ValueInt(75)>>)

(***************************************************************************)
(* Confidence bands from raw percentiles                                   *)
(***************************************************************************)
\* the raw percentiles handed to try_from
MaxRawPercentile == 101
RawPercentiles == 0..MaxRawPercentile

InitConf ==
    /\ build \in Builds
    /\ experiments = InitialExperiments
    /\ linear_results = <<>>
    /\ xy_results = <<>>
    /\ log_linear = <<>>
    /\ log_xy = <<>>
    /\ dbs = InitialDbs
    /\ fed = NotBuilt
    /\ trip = NoTrip
    /\ ret = NoCall
    /\ arg \in {[fn |-> "try_from", c |-> c] : c \in RawPercentiles}

\* Confidence::try_from(c) (handles build), Confidence::new(c) (lib build)
TryFrom ==
    /\ arg.fn = "try_from" /\ ret = NoCall
    /\ ret' = [op |-> "try_from", out |-> try_from(arg.c)]
    /\ UNCHANGED <<build, experiments, linear_results, xy_results, log_linear,
                   log_xy, dbs, fed, trip, arg>>

NextConf == TryFrom

SpecConf == InitConf /\ [][NextConf]_vars

Min(a, b) == IF a < b THEN a ELSE b

\* C19: a raw percentile p is accepted as a confidence band exactly when p is
\* one of 1, 5, 10, 25, 75, 90, 95, 99, and then maps to the band min(p, 100-p);
\* every other integer yields the invalid-confidence error.
C19_AcceptedPercentiles ==
    ret.op = "try_from" =>
        IF arg.c \in {1, 5, 10, 25, 75, 90, 95, 99}
        THEN /\ ret.out.result = "Ok"
             /\ usize_from(ret.out.confidence) = Min(arg.c, 100 - arg.c)
        ELSE ret.out = [result |-> "InvalidConfidence", c |-> arg.c]

\* 75 was handed in and came back as the band of 25
C19_Witness ==
    /\ ret.op = "try_from" /\ arg.c = 75
    /\ ret.out = [result |-> "Ok", confidence |-> "TwentyFive"]

(***************************************************************************)
(* Confidence bands of a datapoint                                         *)
(***************************************************************************)
\* XYDatapoint::new
XYDatapoint_new(x, y) ==
    [x |-> x, y |-> y, x_confidence |-> <<>>, y_confidence |-> <<>>, tag |-> None]

\* XYDatapoint::add_x_confidence (value_model.rs)
add_x_confidence(datapoint, confidence, values) ==
    LET r == add_band(datapoint.x, datapoint.x_confidence, confidence, values)
    IN  [result    |-> r.result,
         datapoint |-> [datapoint EXCEPT !.x_confidence = r.bands]]

\* XYDatapoint::add_y_confidence (value_model.rs)
add_y_confidence(datapoint, confidence, values) ==
    LET r == add_band(datapoint.y, datapoint.y_confidence, confidence, values)
    IN  [result    |-> r.result,
         datapoint |-> [datapoint EXCEPT !.y_confidence = r.bands]]

\* XYDatapoint::get_x_confidence / get_y_confidence
get_x_confidence(datapoint, confidence) == get(datapoint.x_confidence, confidence)
get_y_confidence(datapoint, confidence) == get(datapoint.y_confidence, confidence)

\* the central value and the map of the band written: v, x or y
Central(datapoint, which) ==
    CASE which = "v" -> datapoint.v
      [] which = "x" -> datapoint.x
      [] which = "y" -> datapoint.y

Bands(datapoint, which) ==
    CASE which = "v" -> datapoint.v_confidence
      [] which = "x" -> datapoint.x_confidence
      [] which = "y" -> datapoint.y_confidence

WithBands(datapoint, which, bands) ==
    CASE which = "v" -> [datapoint EXCEPT !.v_confidence = bands]
      [] which = "x" -> [datapoint EXCEPT !.x_confidence = bands]
      [] which = "y" -> [datapoint EXCEPT !.y_confidence = bands]

\* model.rs add_confidence / add_x_confidence / add_y_confidence: the band is
\* given as a usize and goes through Confidence::new first
lib_add_confidence(datapoint, which, c, values) ==
    LET confidence == try_from(c)
    IN  IF confidence.result /= "Ok"
        THEN [result |-> confidence.result, datapoint |-> datapoint]
        ELSE LET r == add_band(Central(datapoint, which), Bands(datapoint, which),
                               confidence.confidence, values)
             IN  [result    |-> IF r.result = "Ok" THEN "Ok" ELSE "MismatchedTypes",
                  datapoint |-> WithBands(datapoint, which, r.bands)]

\* model.rs get_confidence / get_x_confidence / get_y_confidence
lib_get_confidence(datapoint, which, c) ==
    LET confidence == try_from(c)
    IN  IF confidence.result /= "Ok" THEN None
        ELSE get(Bands(datapoint, which), confidence.confidence)

\* add_*_confidence of the build in use
datapoint_add(b, datapoint, which, c, values) ==
    IF b = "lib" THEN lib_add_confidence(datapoint, which, c, values)
    ELSE CASE which = "v" -> add_confidence(datapoint, c, values)
           [] which = "x" -> add_x_confidence(datapoint, c, values)
           [] which = "y" -> add_y_confidence(datapoint, c, values)

\* get_*_confidence of the build in use
datapoint_get(b, datapoint, which, c) ==
    IF b = "lib" THEN lib_get_confidence(datapoint, which, c)
    ELSE CASE which = "v" -> get_confidence(datapoint, c)
           [] which = "x" -> get_x_confidence(datapoint, c)
           [] which = "y" -> get_y_confidence(datapoint, c)

\* the band a call names: the lib build takes the raw percentile
BandOf(b, c) == IF b = "lib" THEN try_from(c) ELSE [result |-> "Ok", confidence |-> c]

\* central values, bounds and bands the calls are made with (a float x.0 is
\* written x)
CentralValues == {ValueInt(0), ValueFloat(0)}
BoundValues == {Left(0, 0), Left(1, 9), Right(0, 0), Right(1, 9)}
BandArgs(b) == IF b = "lib" THEN {0, 1, 25, 99} ELSE {"One", "TwentyFive"}

\* a new datapoint; given records, per band, the bounds of the last add that
\* returned Ok
InitBand ==
    /\ build \in Builds
    /\ experiments = InitialExperiments
    /\ linear_results = <<>>
    /\ xy_results = <<>>
    /\ log_linear = <<>>
    /\ log_xy = <<>>
    /\ dbs = InitialDbs
    /\ fed = NotBuilt
    /\ trip = NoTrip
    /\ ret = NoCall
    /\ arg \in {[fn |-> "LinearDatapoint", given |-> <<>>,
                 datapoint |-> LinearDatapoint_new("", v)] : v \in CentralValues}
          \cup {[fn |-> "XYDatapoint", given |-> <<>>,
                 datapoint |-> XYDatapoint_new(x, y)] :
                    x \in CentralValues, y \in CentralValues}

AddBand(op, which, c, values) ==
    LET r == datapoint_add(build, arg.datapoint, which, c, values)
    IN  /\ arg' = [arg EXCEPT
                     !.datapoint = r.datapoint,
                     !.given = IF r.result = "Ok"
                               THEN insert(@, <<which, BandOf(build, c).confidence>>,
                                           values)
                               ELSE @]
        /\ ret' = [op |-> op, which |-> which, confidence |-> c,
                   values |-> values, out |-> r.result]
        /\ UNCHANGED <<build, experiments, linear_results, xy_results,
                       log_linear, log_xy, dbs, fed, trip>>

GetBand(op, which, c) ==
    /\ ret' = [op |-> op, which |-> which, confidence |-> c,
               out |-> datapoint_get(build, arg.datapoint, which, c)]
    /\ UNCHANGED <<build, experiments, linear_results, xy_results,
                   log_linear, log_xy, dbs, fed, trip, arg>>

\* LinearDatapoint::add_confidence
AddConfidence(c, values) ==
    arg.fn = "LinearDatapoint" /\ AddBand("add_confidence", "v", c, values)

\* XYDatapoint::add_x_confidence
AddXConfidence(c, values) ==
    arg.fn = "XYDatapoint" /\ AddBand("add_x_confidence", "x", c, values)

\* XYDatapoint::add_y_confidence
AddYConfidence(c, values) ==
    arg.fn = "XYDatapoint" /\ AddBand("add_y_confidence", "y", c, values)

\* LinearDatapoint::get_confidence
GetConfidence(c) ==
    arg.fn = "LinearDatapoint" /\ GetBand("get_confidence", "v", c)

\* XYDatapoint::get_x_confidence
GetXConfidence(c) ==
    arg.fn = "XYDatapoint" /\ GetBand("get_x_confidence", "x", c)

\* XYDatapoint::get_y_confidence
GetYConfidence(c) ==
    arg.fn = "XYDatapoint" /\ GetBand("get_y_confidence", "y", c)

NextBand ==
    \/ \E c \in BandArgs(build), values \in BoundValues : AddConfidence(c, values)
    \/ \E c \in BandArgs(build), values \in BoundValues : AddXConfidence(c, values)
    \/ \E c \in BandArgs(build), values \in BoundValues : AddYConfidence(c, values)
    \/ \E c \in BandArgs(build) : GetConfidence(c)
    \/ \E c \in BandArgs(build) : GetXConfidence(c)
    \/ \E c \in BandArgs(build) : GetYConfidence(c)

SpecBand == InitBand /\ [][NextBand]_vars

\* the pair of Values that bounds given as Either stand for
Tagged(values) ==
    IF values[1] = "Left"
    THEN <<ValueInt(values[2]), ValueInt(values[3])>>
    ELSE <<ValueFloat(values[2]), ValueFloat(values[3])>>

\* the bounds carry the Int/Float tag of the central value
SameTag(central, values) == is_int(central) <=> values[1] = "Left"

AddOps == {"add_confidence", "add_x_confidence", "add_y_confidence"}
GetOps == {"get_confidence", "get_x_confidence", "get_y_confidence"}

\* an add call that names a band: turned down with the bands as they were, or
\* stored so that get returns the bounds
AddIsTypeChecked ==
    (ret'.op \in AddOps /\ BandOf(build, ret'.confidence).result = "Ok") =>
        IF SameTag(Central(arg.datapoint, ret'.which), ret'.values)
        THEN /\ ret'.out = "Ok"
             /\ datapoint_get(build, arg'.datapoint, ret'.which, ret'.confidence)
                  = Some(Tagged(ret'.values))
        ELSE /\ ret'.out \in {"MismatchedBarTypes", "MismatchedTypes"}
             /\ arg'.datapoint = arg.datapoint

\* a get call returns the bounds of the last add of the band that returned Ok
GetReturnsGiven ==
    (ret'.op \in GetOps /\ BandOf(build, ret'.confidence).result = "Ok") =>
        LET key == <<ret'.which, BandOf(build, ret'.confidence).confidence>>
        IN  ret'.out = IF key \in DOMAIN arg.given
                       THEN Some(Tagged(arg.given[key])) ELSE None

\* C20: add_confidence / add_x_confidence / add_y_confidence with bounds whose
\* Int/Float tag differs from the tag of the central value returns the
\* mismatched-type error and leaves the datapoint's bands unchanged; with a
\* matching tag it stores the band, and a later get for that band returns
\* exactly the given (lower, upper).
C20_BandTypeChecked == [][AddIsTypeChecked /\ GetReturnsGiven]_vars

\* a float y band was stored, and an add of integer bounds for the same band
\* has just been turned down
C20_Witness ==
    /\ ret.op = "add_y_confidence"
    /\ ret.values = Left(0, 0)
    /\ ret.out \in {"MismatchedBarTypes", "MismatchedTypes"}
    /\ BandOf(build, ret.confidence).result = "Ok"
    /\ datapoint_get(build, arg.datapoint, "y", ret.confidence)
         = Some(<<ValueFloat(1), ValueFloat(9)>>)

(***************************************************************************)
(* Datapoints in the result tables: the confidence columns                 *)
(***************************************************************************)
\* LinearDatapoint::tag / XYDatapoint::tag
with_tag(datapoint, t) == [datapoint EXCEPT !.tag = Some(t)]

\* the column groups of a result row, named by their lower percentile:
\* v_*_1 / v_*_99, v_*_5 / v_*_95, v_*_10 / v_*_90, v_*_25 / v_*_75
ColumnGroups == <<1, 5, 10, 25>>

\* the band each column group is read into: add_confidence(1, e),
\* add_confidence(5, e), add_confidence(10, e) and, for the 25 / 75 columns,
\* add_confidence(10, e) again
ReadInto == <<1, 5, 10, 10>>

\* the values bound to the columns of one axis by add_linear_datapoint /
\* add_xy_datapoint: datapoint.get_confidence(1), (5), (10), (25)
write_columns(datapoint, which) ==
    [i \in 1..Len(ColumnGroups) |->
        lib_get_confidence(datapoint, which, ColumnGroups[i])]

\* create_confidence_arg: column holds the four Option columns of one group,
\* the integer pair non-null when the bounds are Value::Int
create_confidence_arg(column) ==
    IF column = None THEN None
    ELSE LET lower == Unwrap(column)[1]
             upper == Unwrap(column)[2]
         IN  IF is_int(lower) /\ is_int(upper)
             THEN Some(Left(lower[2], upper[2]))
             ELSE IF ~is_int(lower) /\ ~is_int(upper)
                  THEN Some(Right(lower[2], upper[2]))
                  ELSE None

\* the four  if let Some(e) = create_confidence_arg(..) { let _ = add(..) }
\* blocks of one axis, from block i on
RECURSIVE read_columns(_, _, _, _)
read_columns(datapoint, which, columns, i) ==
    IF i > Len(ColumnGroups) THEN datapoint
    ELSE LET e == create_confidence_arg(columns[i])
         IN  read_columns(IF IsSome(e)
                          THEN lib_add_confidence(datapoint, which, ReadInto[i],
                                                  Unwrap(e)).datapoint
                          ELSE datapoint,
                          which, columns, i + 1)

\* DbWriteBackend::add_linear_datapoint with the confidence columns it binds
add_linear_row(table, exp_code, datapoint) ==
    LET version == get_new_linear_version(table, exp_code, datapoint.group)
    IN  insert_row(table, [experiment_code |-> exp_code,
                           key     |-> datapoint.group,
                           version |-> version,
                           v       |-> datapoint.v,
                           v_bands |-> write_columns(datapoint, "v")])

\* DbWriteBackend::add_xy_datapoint with the confidence columns it binds
add_xy_row(table, exp_code, datapoint) ==
    LET version == get_new_xy_version(table, exp_code, Unwrap(datapoint.tag))
    IN  insert_row(table, [experiment_code |-> exp_code,
                           key     |-> Unwrap(datapoint.tag),
                           version |-> version,
                           x       |-> datapoint.x,
                           y       |-> datapoint.y,
                           x_bands |-> write_columns(datapoint, "x"),
                           y_bands |-> write_columns(datapoint, "y")])

\* TryFrom<&Row> for LinearDatapoint: no column of the row is a tag
linear_from_row(row) ==
    read_columns(LinearDatapoint_new(row.key, row.v), "v", row.v_bands, 1)

\* TryFrom<&Row> for XYDatapoint: the tag column is not null in xy_results
xy_from_row(row) ==
    with_tag(read_columns(read_columns(XYDatapoint_new(row.x, row.y),
                                       "x", row.x_bands, 1),
                          "y", row.y_bands, 1),
             row.key)

\* DbReadBackend::get_linear_datapoints: one datapoint per group (the row of
\* the maximum version), sorted by group
read_linear_datapoints(table, code) ==
    LET present == SelectSeq(Groups, LAMBDA g : g \in KeysOf(table, code))
    IN  [i \in 1..Len(present) |->
            linear_from_row(MaxVersionRow(table, code, present[i]))]

\* DbReadBackend::get_xy_datapoints: one datapoint per tag, sorted by tag
read_xy_datapoints(table, code) ==
    LET present == SelectSeq(TagSeq, LAMBDA t : t \in KeysOf(table, code))
    IN  [i \in 1..Len(present) |->
            xy_from_row(MaxVersionRow(table, code, present[i]))]

(***************************************************************************)
(* Virtual experiments: expressions over a datapoint                       *)
(***************************************************************************)
\* Option::unwrap_or
unwrap_or(o, default) == IF IsSome(o) THEN Unwrap(o) ELSE default

\* i64 / i64: the quotient truncated towards zero
i64_div(a, b) == IF a >= 0 THEN a \div b ELSE -((-a) \div b)

\* the expressions a descriptor may carry, as evalexpr parses them: one
\* identifier, or the difference of two identifiers
Parsed(expr) ==
    CASE expr = "v"        -> <<"id", "v">>
      [] expr = "x"        -> <<"id", "x">>
      [] expr = "y"        -> <<"id", "y">>
      [] expr = "tag"      -> <<"id", "tag">>
      [] expr = "v - min"  -> <<"-", "v", "min">>
      [] expr = "max - v"  -> <<"-", "max", "v">>
      [] expr = "y - ymin" -> <<"-", "y", "ymin">>
      [] expr = "ymax - y" -> <<"-", "ymax", "y">>

\* evalexpr::eval_with_context on Value::Int operands: an identifier the
\* context does not bind is an error, Int - Int is an Int
eval_with_context(expr, ctx) ==
    LET p == Parsed(expr)
    IN  IF p[1] = "id"
        THEN IF p[2] \in DOMAIN ctx
             THEN [result |-> "Ok", value |-> ctx[p[2]]]
             ELSE [result |-> "Err"]
        ELSE IF p[2] \in DOMAIN ctx /\ p[3] \in DOMAIN ctx
             THEN [result |-> "Ok",
                   value  |-> ValueInt(ctx[p[2]][2] - ctx[p[3]][2])]
             ELSE [result |-> "Err"]

\* LinearDatapoint::get_evalexpr_context
get_evalexpr_context(value, t, min, max, avg) ==
    [id \in {"v", "V", "tag", "min", "max", "avg"} |->
        CASE id \in {"v", "V"} -> value
          [] id = "tag" -> ValueInt(t)
          [] id = "min" -> min
          [] id = "max" -> max
          [] id = "avg" -> avg]

\* XYDatapoint::get_evalexpr_context
xy_get_evalexpr_context(xvalue, yvalue, t, xg, yg) ==
    [id \in {"x", "X", "y", "Y", "tag",
             "xmin", "xmax", "xavg", "ymin", "ymax", "yavg"} |->
        CASE id \in {"x", "X"} -> xvalue
          [] id \in {"y", "Y"} -> yvalue
          [] id = "tag"  -> ValueInt(t)
          [] id = "xmin" -> xg.min
          [] id = "xmax" -> xg.max
          [] id = "xavg" -> xg.avg
          [] id = "ymin" -> yg.min
          [] id = "ymax" -> yg.max
          [] id = "yavg" -> yg.avg]

\* the context of a bound: the context of the point with the bound in the
\* place of the central value (both of its aliases)
substitute(ctx, ids, value) ==
    [id \in DOMAIN ctx |-> IF id \in ids THEN value ELSE ctx[id]]

\* map_bands that sorts each pair of bounds
map_bands_ordered(bands, expr, ctx, ids) ==
    LET lower(c) == eval_with_context(expr, substitute(ctx, ids, bands[c][1]))
        upper(c) == eval_with_context(expr, substitute(ctx, ids, bands[c][2]))
    IN  IF \E c \in DOMAIN bands : lower(c).result /= "Ok" \/ upper(c).result /= "Ok"
        THEN [result |-> "Err"]
        ELSE [result |-> "Ok",
              bands  |-> [c \in DOMAIN bands |->
                             IF lower(c).value[2] <= upper(c).value[2]
                             THEN <<lower(c).value, upper(c).value>>
                             ELSE <<upper(c).value, lower(c).value>>]]

\* the loop over SUPPORTED_CONFIDENCES of a map_expression for one source
\* map: each band present gives (eval(lower), eval(upper)), stored by
\* add_*_value_confidence as computed; ctx is the context of the central
\* value and ids the names the bound is bound to
map_bands(bands, expr, ctx, ids) ==
    LET lower(c) == eval_with_context(expr, substitute(ctx, ids, bands[c][1]))
        upper(c) == eval_with_context(expr, substitute(ctx, ids, bands[c][2]))
    IN  IF \E c \in DOMAIN bands : lower(c).result /= "Ok" \/ upper(c).result /= "Ok"
        THEN [result |-> "Err"]
        ELSE [result |-> "Ok",
              bands  |-> [c \in DOMAIN bands |-> <<lower(c).value, upper(c).value>>]]

\* LinearDatapoint::map_expression; g holds global_min, global_max, global_avg
map_expression(datapoint, v_op, tag_op, g) ==
    IF datapoint.tag = None THEN [result |-> "panic"]
    ELSE LET v_expr   == unwrap_or(v_op, "v")
             tag_expr == unwrap_or(tag_op, "tag")
             ctx      == get_evalexpr_context(datapoint.v, Unwrap(datapoint.tag),
                                              g.min, g.max, g.avg)
             new_v    == eval_with_context(v_expr, ctx)
             new_tag  == eval_with_context(tag_expr, ctx)
             bands    == map_bands(datapoint.v_confidence, v_expr, ctx, {"v", "V"})
         IN  IF new_v.result /= "Ok" \/ new_tag.result /= "Ok"
                \/ bands.result /= "Ok"
             THEN [result |-> "Err"]
             ELSE [result |-> "Ok",
                   datapoint |->
                      [with_tag(LinearDatapoint_new(datapoint.group, new_v.value),
                                new_tag.value[2])
                       EXCEPT !.v_confidence = bands.bands]]

\* LinearDatapoint::map_expression_to_xy
map_expression_to_xy(datapoint, x_op, y_op, tag_op, g) ==
    IF datapoint.tag = None THEN [result |-> "panic"]
    ELSE LET x_expr   == unwrap_or(x_op, "tag")
             y_expr   == unwrap_or(y_op, "v")
             tag_expr == unwrap_or(tag_op, "tag")
             ctx      == get_evalexpr_context(datapoint.v, Unwrap(datapoint.tag),
                                              g.min, g.max, g.avg)
             new_x    == eval_with_context(x_expr, ctx)
             new_y    == eval_with_context(y_expr, ctx)
             new_tag  == eval_with_context(tag_expr, ctx)
             x_bands  == map_bands(datapoint.v_confidence, x_expr, ctx, {"v", "V"})
             y_bands  == map_bands(datapoint.v_confidence, y_expr, ctx, {"v", "V"})
         IN  IF new_x.result /= "Ok" \/ new_y.result /= "Ok"
                \/ new_tag.result /= "Ok"
                \/ x_bands.result /= "Ok" \/ y_bands.result /= "Ok"
             THEN [result |-> "Err"]
             ELSE [result |-> "Ok",
                   datapoint |->
                      [with_tag(XYDatapoint_new(new_x.value, new_y.value),
                                new_tag.value[2])
                       EXCEPT !.x_confidence = x_bands.bands,
                              !.y_confidence = y_bands.bands]]

\* XYDatapoint::map_expression; xg and yg hold the globals of each axis
xy_map_expression(datapoint, x_op, y_op, tag_op, xg, yg) ==
    IF datapoint.tag = None THEN [result |-> "panic"]
    ELSE LET x_expr   == unwrap_or(x_op, "x")
             y_expr   == unwrap_or(y_op, "y")
             tag_expr == unwrap_or(tag_op, "tag")
             ctx      == xy_get_evalexpr_context(datapoint.x, datapoint.y,
                                                 Unwrap(datapoint.tag), xg, yg)
             new_x    == eval_with_context(x_expr, ctx)
             new_y    == eval_with_context(y_expr, ctx)
             new_tag  == eval_with_context(tag_expr, ctx)
             x_bands  == map_bands(datapoint.x_confidence, x_expr, ctx, {"x", "X"})
             y_bands  == map_bands(datapoint.y_confidence, y_expr, ctx, {"y", "Y"})
         IN  IF new_x.result /= "Ok" \/ new_y.result /= "Ok"
                \/ new_tag.result /= "Ok"
                \/ x_bands.result /= "Ok" \/ y_bands.result /= "Ok"
             THEN [result |-> "Err"]
             ELSE [result |-> "Ok",
                   datapoint |->
                      [with_tag(XYDatapoint_new(new_x.value, new_y.value),
                                new_tag.value[2])
                       EXCEPT !.x_confidence = x_bands.bands,
                              !.y_confidence = y_bands.bands]]

(***************************************************************************)
(* Virtual experiments: resolution of a descriptor (config.rs)             *)
(***************************************************************************)
\* Vec::sort_by_key(|v| v.tag.unwrap()): a stable sort; the key is computed
\* as soon as two elements are compared, and unwrap panics on a tag of None
sort_by_tag(values) ==
    IF Len(values) < 2 THEN [result |-> "Ok", values |-> values]
    ELSE IF \E i \in 1..Len(values) : values[i].tag = None
         THEN [result |-> "panic"]
         ELSE LET key(i) == Unwrap(values[i].tag)
                  pos(i) == 1 + Cardinality({j \in 1..Len(values) : key(j) < key(i)})
                              + Cardinality({j \in 1..(i - 1) : key(j) = key(i)})
              IN  [result |-> "Ok",
                   values |-> [n \in 1..Len(values) |->
                                 values[CHOOSE i \in 1..Len(values) : pos(i) = n]]]

RECURSIVE sum_i64(_)
sum_i64(ints) == IF ints = <<>> THEN 0 ELSE Head(ints) + sum_i64(Tail(ints))

\* min, max and avg of the central values of a non-empty vector, all
\* Value::Int:  iter().min(), iter().max(), Value::Int(sum / len)
globals(central) ==
    LET ints == [i \in 1..Len(central) |-> central[i][2]]
    IN  [min |-> ValueInt(CHOOSE m \in {ints[i] : i \in 1..Len(ints)} :
                            \A i \in 1..Len(ints) : m <= ints[i]),
         max |-> ValueInt(SetMax({ints[i] : i \in 1..Len(ints)})),
         avg |-> ValueInt(i64_div(sum_i64(ints), Len(ints)))]

\* .collect::<BencherResult<Vec<_>>>() over mapped datapoints: the first
\* element that fails ends the iteration with its failure
collect(results) ==
    IF \E i \in 1..Len(results) : results[i].result /= "Ok"
    THEN [result |->
            results[CHOOSE i \in 1..Len(results) :
                      /\ results[i].result /= "Ok"
                      /\ \A j \in 1..(i - 1) : results[j].result = "Ok"].result]
    ELSE [result |-> "Ok",
          values |-> [i \in 1..Len(results) |-> results[i].datapoint]]

\* map_linear_datapoints of get_virtual_linear_experiment_sets
map_linear_datapoints(vec, virtual_experiment) ==
    IF vec = <<>> THEN [result |-> "Ok", values |-> vec]
    ELSE LET g == globals([i \in 1..Len(vec) |-> vec[i].v])
         IN  collect([i \in 1..Len(vec) |->
                        map_expression(vec[i], virtual_experiment.v_operation,
                                       virtual_experiment.tag_operation, g)])

\* map_xy_datapoints of get_virtual_xy_experiment_lines
map_xy_datapoints(vec, virtual_experiment) ==
    IF vec = <<>> THEN [result |-> "Ok", values |-> vec]
    ELSE LET xg == globals([i \in 1..Len(vec) |-> vec[i].x])
             yg == globals([i \in 1..Len(vec) |-> vec[i].y])
         IN  collect([i \in 1..Len(vec) |->
                        xy_map_expression(vec[i], virtual_experiment.x_operation,
                                          virtual_experiment.y_operation,
                                          virtual_experiment.tag_operation, xg, yg)])

\* map_linear_datapoints of get_virtual_xy_experiment_lines
map_linear_datapoints_to_xy(vec, virtual_experiment) ==
    IF vec = <<>> THEN [result |-> "Ok", values |-> <<>>]
    ELSE LET g == globals([i \in 1..Len(vec) |-> vec[i].v])
         IN  collect([i \in 1..Len(vec) |->
                        map_expression_to_xy(vec[i], virtual_experiment.x_operation,
                                             virtual_experiment.y_operation,
                                             virtual_experiment.tag_operation, g)])

\* the rows of the experiments table in the order the store returns them
CodeOrder == <<"linear_lat_a", "linear_lat_b", "tput_1", "tput_2">>

\* DbReadBackend::list_codes_labels_by_exp_type
list_codes_labels_by_exp_type(exps, exp_type) ==
    LET row(code) == CHOOSE e \in exps : e.experiment_code = code
        codes == SelectSeq(CodeOrder,
                           LAMBDA c : \E e \in exps : /\ e.experiment_code = c
                                                      /\ e.experiment_type = exp_type)
    IN  [i \in 1..Len(codes) |-> <<codes[i], row(codes[i]).experiment_label>>]

\* .collect::<BencherResult<Vec<_>>>() over mapped sets or lines
collect_sets(results) ==
    IF \E i \in 1..Len(results) : results[i].result /= "Ok"
    THEN [result |->
            results[CHOOSE i \in 1..Len(results) :
                      /\ results[i].result /= "Ok"
                      /\ \A j \in 1..(i - 1) : results[j].result = "Ok"].result]
    ELSE [result |-> "Ok",
          sets   |-> [i \in 1..Len(results) |->
                        [label |-> results[i].label, values |-> results[i].values]]]

\* ReadConfig::find_virtual_linear_experiment / find_virtual_xy_experiment:
\* iter().find(|e| e.exp_type == exp_type)
find(descriptors, exp_type) ==
    IF \E i \in 1..Len(descriptors) : descriptors[i].exp_type = exp_type
    THEN Some(descriptors[CHOOSE i \in 1..Len(descriptors) :
                            /\ descriptors[i].exp_type = exp_type
                            /\ \A j \in 1..(i - 1) :
                                  descriptors[j].exp_type /= exp_type])
    ELSE None

\* ReadConfig::get_linear_experiment_sets; db holds the tables of the store
get_linear_experiment_sets(db, exp_type) ==
    LET codes_labels == list_codes_labels_by_exp_type(db.experiments, exp_type)
    IN  collect_sets([i \in 1..Len(codes_labels) |->
            sort_by_tag(read_linear_datapoints(db.linear_results, codes_labels[i][1]))
              @@ [label |-> codes_labels[i][2]]])

\* ReadConfig::get_xy_experiment_lines
get_xy_experiment_lines(db, exp_type) ==
    LET codes_labels == list_codes_labels_by_exp_type(db.experiments, exp_type)
    IN  collect_sets([i \in 1..Len(codes_labels) |->
            sort_by_tag(read_xy_datapoints(db.xy_results, codes_labels[i][1]))
              @@ [label |-> codes_labels[i][2]]])

\* the closure mapped over the source sets of a virtual linear experiment:
\* map the datapoints, sort them by tag, keep the label
map_linear_sets(sets, virtual_experiment) ==
    collect_sets([i \in 1..Len(sets) |->
        LET mapped == map_linear_datapoints(sets[i].values, virtual_experiment)
        IN  IF mapped.result /= "Ok" THEN mapped
            ELSE sort_by_tag(mapped.values) @@ [label |-> sets[i].label]])

\* the closure mapped over the source lines of a virtual XY experiment
map_xy_lines(lines, virtual_experiment) ==
    collect_sets([i \in 1..Len(lines) |->
        LET mapped == map_xy_datapoints(lines[i].values, virtual_experiment)
        IN  IF mapped.result /= "Ok" THEN mapped
            ELSE sort_by_tag(mapped.values) @@ [label |-> lines[i].label]])

\* ReadConfig::get_virtual_linear_experiment_sets; frames is the number of
\* nested calls the stack still holds
RECURSIVE get_virtual_linear_experiment_sets(_, _, _, _)
get_virtual_linear_experiment_sets(config, db, experiment, frames) ==
    IF frames = 0 THEN [result |-> "stack overflow"]
    ELSE LET source == experiment.source_exp_type
             e      == find(config.virtual_linear_experiments, source)
         IN  IF IsSome(e)
             THEN LET source_sets == get_virtual_linear_experiment_sets(
                                        config, db, Unwrap(e), frames - 1)
                  IN  IF source_sets.result /= "Ok" THEN source_sets
                      ELSE map_linear_sets(source_sets.sets, experiment)
             ELSE IF source \in config.linear_experiments
                  THEN LET source_sets == get_linear_experiment_sets(db, source)
                       IN  IF source_sets.result /= "Ok" THEN source_sets
                           ELSE map_linear_sets(source_sets.sets, experiment)
                  ELSE [result |-> "ExperimentNotFound"]

\* the datapoints of all sets, flattened in order, that carry one group
pool(sets, group) ==
    LET RECURSIVE flat(_)
        flat(i) == IF i > Len(sets) THEN <<>> ELSE sets[i].values \o flat(i + 1)
    IN  SelectSeq(flat(1), LAMBDA dp : dp.group = group)

\* map_linear_sets_into_xy_lines: one line per key of group_map. A HashMap
\* yields its keys in an order that is not specified: hash_order is the order
\* of this run over all groups
map_linear_sets_into_xy_lines(sets, virtual_experiment, hash_order) ==
    LET keys == SelectSeq(hash_order, LAMBDA g : pool(sets, g) /= <<>>)
    IN  collect_sets([i \in 1..Len(keys) |->
            LET mapped == map_linear_datapoints_to_xy(pool(sets, keys[i]),
                                                      virtual_experiment)
            IN  IF mapped.result /= "Ok" THEN mapped
                ELSE mapped @@ [label |-> keys[i]]])

RECURSIVE get_virtual_xy_experiment_lines(_, _, _, _, _)

\* get_virtual_xy_experiment_lines that takes the lines of a virtual source
\* without the expressions of that source
get_virtual_xy_experiment_lines_unmapped(config, db, experiment, hash_order, frames) ==
    IF frames = 0 THEN [result |-> "stack overflow"]
    ELSE LET source == experiment.source_exp_type
             vxy    == find(config.virtual_xy_experiments, source)
             vlin   == find(config.virtual_linear_experiments, source)
         IN  IF IsSome(vxy)
             THEN LET source_lines == get_virtual_xy_experiment_lines(
                                         config, db,
                                         [Unwrap(vxy) EXCEPT !.x_operation = None,
                                                             !.y_operation = None],
                                         hash_order, frames - 1)
                  IN  IF source_lines.result /= "Ok" THEN source_lines
                      ELSE map_xy_lines(source_lines.sets, experiment)
             ELSE IF IsSome(vlin)
             THEN LET source_sets == get_virtual_linear_experiment_sets(
                                        config, db, Unwrap(vlin), frames - 1)
                  IN  IF source_sets.result /= "Ok" THEN source_sets
                      ELSE map_linear_sets_into_xy_lines(source_sets.sets,
                                                         experiment, hash_order)
             ELSE IF source \in config.linear_experiments
             THEN LET source_sets == get_linear_experiment_sets(db, source)
                  IN  IF source_sets.result /= "Ok" THEN source_sets
                      ELSE map_linear_sets_into_xy_lines(source_sets.sets,
                                                         experiment, hash_order)
             ELSE IF source \in config.xy_experiments
             THEN LET source_lines == get_xy_experiment_lines(db, source)
                  IN  IF source_lines.result /= "Ok" THEN source_lines
                      ELSE map_xy_lines(source_lines.sets, experiment)
             ELSE [result |-> "ExperimentNotFound"]

\* ReadConfig::get_virtual_xy_experiment_lines
get_virtual_xy_experiment_lines(config, db, experiment, hash_order, frames) ==
    IF frames = 0 THEN [result |-> "stack overflow"]
    ELSE LET source == experiment.source_exp_type
             vxy    == find(config.virtual_xy_experiments, source)
             vlin   == find(config.virtual_linear_experiments, source)
         IN  IF IsSome(vxy)
             THEN LET source_lines == get_virtual_xy_experiment_lines(
                                         config, db, Unwrap(vxy), hash_order,
                                         frames - 1)
                  IN  IF source_lines.result /= "Ok" THEN source_lines
                      ELSE map_xy_lines(source_lines.sets, experiment)
             ELSE IF IsSome(vlin)
             THEN LET source_sets == get_virtual_linear_experiment_sets(
                                        config, db, Unwrap(vlin), frames - 1)
                  IN  IF source_sets.result /= "Ok" THEN source_sets
                      ELSE map_linear_sets_into_xy_lines(source_sets.sets,
                                                         experiment, hash_order)
             ELSE IF source \in config.linear_experiments
             THEN LET source_sets == get_linear_experiment_sets(db, source)
                  IN  IF source_sets.result /= "Ok" THEN source_sets
                      ELSE map_linear_sets_into_xy_lines(source_sets.sets,
                                                         experiment, hash_order)
             ELSE IF source \in config.xy_experiments
             THEN LET source_lines == get_xy_experiment_lines(db, source)
                  IN  IF source_lines.result /= "Ok" THEN source_lines
                      ELSE map_xy_lines(source_lines.sets, experiment)
             ELSE [result |-> "ExperimentNotFound"]

\* ReadConfig::linear_experiment_view, up to the sets handed to the view
linear_experiment_view(config, db, exp_type, frames) ==
    LET v == find(config.virtual_linear_experiments, exp_type)
    IN  IF exp_type \in config.linear_experiments
        THEN get_linear_experiment_sets(db, exp_type)
        ELSE IF IsSome(v)
             THEN get_virtual_linear_experiment_sets(config, db, Unwrap(v), frames)
             ELSE [result |-> "ExperimentNotFound"]

\* ReadConfig::xy_experiment_view, up to the lines handed to the view
xy_experiment_view(config, db, exp_type, hash_order, frames) ==
    LET v == find(config.virtual_xy_experiments, exp_type)
    IN  IF exp_type \in config.xy_experiments
        THEN get_xy_experiment_lines(db, exp_type)
        ELSE IF IsSome(v)
             THEN get_virtual_xy_experiment_lines(config, db, Unwrap(v),
                                                  hash_order, frames)
             ELSE [result |-> "ExperimentNotFound"]

(***************************************************************************)
(* Virtual experiments over a store (SpecVirt)                             *)
(***************************************************************************)
\* rows a behaviour of SpecVirt may insert; it fills one of the two tables
MaxPoints == 2

\* VirtualLinearExperiment { exp_type, source_exp_type, v_operation, tag_operation }
VirtualLinear(exp_type, source, v_op) ==
    [exp_type |-> exp_type, source_exp_type |-> source,
     v_operation |-> v_op, tag_operation |-> None]

\* VirtualXYExperiment { exp_type, source_exp_type, x_operation, y_operation,
\* tag_operation }
VirtualXY(exp_type, source, y_op) ==
    [exp_type |-> exp_type, source_exp_type |-> source,
     x_operation |-> None, y_operation |-> y_op, tag_operation |-> None]

\* a parsed configuration: the concrete types of the store and virtual
\* experiments over them, over each other, over themselves and over a type
\* that does not exist
Config ==
    [linear_experiments |-> {"Operational Latency"},
     xy_experiments     |-> {"Throughput"},
     virtual_linear_experiments |->
        <<VirtualLinear("Latency", "Operational Latency", None),
          VirtualLinear("Latency Over Min", "Operational Latency", Some("v - min")),
          VirtualLinear("Latency Under Max", "Latency Over Min", Some("max - v")),
          VirtualLinear("Latency Loop", "Latency Loop", None),
          VirtualLinear("Latency Of Nothing", "Nothing", None)>>,
     virtual_xy_experiments |->
        <<VirtualXY("Throughput Copy", "Throughput", None),
          VirtualXY("Throughput Over Min", "Throughput", Some("y - ymin")),
          VirtualXY("Throughput Under Max", "Throughput", Some("ymax - y")),
          VirtualXY("Throughput Chain", "Throughput Under Max", Some("y - ymin")),
          VirtualXY("Throughput Copy Of Copy", "Throughput Copy", None),
          VirtualXY("Latency Lines", "Operational Latency", None),
          VirtualXY("Latency Over Min Lines", "Latency Over Min", None),
          VirtualXY("Throughput Loop A", "Throughput Loop B", None),
          VirtualXY("Throughput Loop B", "Throughput Loop A", None),
          VirtualXY("Throughput Of Nothing", "Nothing", None)>>]

LinearTypes ==
    Config.linear_experiments \cup {"Nothing"}
    \cup {Config.virtual_linear_experiments[i].exp_type :
            i \in 1..Len(Config.virtual_linear_experiments)}

XYTypes ==
    Config.xy_experiments \cup {"Nothing"}
    \cup {Config.virtual_xy_experiments[i].exp_type :
            i \in 1..Len(Config.virtual_xy_experiments)}

\* nested calls of the resolution the stack holds before it overflows
StackFrames == 4

\* the orders in which a HashMap may yield the groups
HashOrders == {<<"get", "put">>, <<"put", "get">>}

\* a band around an integer central value
Around(i) == Left(i - 2, i + 2)

\* the bands a datapoint is added with: none, the 10/90 band, the 25/75 band
VirtBands == {<<>>, <<10>>, <<25>>}

linear_point(group, v, bands) ==
    IF bands = <<>> THEN LinearDatapoint_new(group, ValueInt(v))
    ELSE lib_add_confidence(LinearDatapoint_new(group, ValueInt(v)), "v",
                            bands[1], Around(v)).datapoint

xy_point(t, xy, bands) ==
    IF bands = <<>>
    THEN with_tag(XYDatapoint_new(ValueInt(xy[1]), ValueInt(xy[2])), t)
    ELSE with_tag(lib_add_confidence(
                     XYDatapoint_new(ValueInt(xy[1]), ValueInt(xy[2])), "y",
                     bands[1], Around(xy[2])).datapoint, t)

\* the datapoints the behaviours add: get = 12 and put = 42 in the sets A and
\* B of "Operational Latency", the points (1, 10) and (2, 20) on the lines of
\* "Throughput"
LinearPoints ==
    {<<"linear_lat_a", linear_point("get", 12, b)>> : b \in VirtBands}
    \cup {<<"linear_lat_a", linear_point("put", 42, b)>> : b \in VirtBands}
    \cup {<<"linear_lat_b", linear_point("get", 42, <<>>)>>,
          <<"linear_lat_b", linear_point("put", 12, <<>>)>>}

XYPoints ==
    {<<"tput_1", xy_point(0, <<1, 10>>, b)>> : b \in VirtBands}
    \cup {<<"tput_1", xy_point(1, <<2, 20>>, b)>> : b \in VirtBands}
    \cup {<<"tput_2", xy_point(0, <<2, 20>>, <<>>)>>,
          <<"tput_2", xy_point(0, <<1, 10>>, <<10>>)>>}

\* the store the configuration reads
Db == [experiments |-> experiments, linear_results |-> linear_results,
       xy_results |-> xy_results]

InitVirt ==
    /\ build = "handles"
    /\ experiments = InitialExperiments
    /\ linear_results = <<>>
    /\ xy_results = <<>>
    /\ log_linear = <<>>
    /\ log_xy = <<>>
    /\ dbs = InitialDbs
    /\ fed = NotBuilt
    /\ trip = NoTrip
    /\ ret = NoCall
    /\ arg = NoArg

\* LinearSetHandle::add_datapoint
VirtAddLinear(code, datapoint) ==
    /\ NRows < MaxPoints
    /\ xy_results = <<>>
    /\ linear_results' = add_linear_row(linear_results, code, datapoint)
    /\ ret' = [op |-> "add_datapoint", exp_code |-> code, datapoint |-> datapoint]
    /\ UNCHANGED <<build, experiments, xy_results, log_linear, log_xy, dbs,
                   fed, trip, arg>>

\* XYLineHandle::add_datapoint of a tagged datapoint
VirtAddXY(code, datapoint) ==
    /\ NRows < MaxPoints
    /\ linear_results = <<>>
    /\ xy_results' = add_xy_row(xy_results, code, datapoint)
    /\ ret' = [op |-> "add_datapoint", exp_code |-> code, datapoint |-> datapoint]
    /\ UNCHANGED <<build, experiments, linear_results, log_linear, log_xy, dbs,
                   fed, trip, arg>>

\* ReadConfig::linear_experiment_view
LinearExperimentView(exp_type) ==
    /\ ret' = [op |-> "linear_experiment_view", exp_type |-> exp_type,
               out |-> linear_experiment_view(Config, Db, exp_type, StackFrames)]
    /\ UNCHANGED <<build, experiments, linear_results, xy_results, log_linear,
                   log_xy, dbs, fed, trip, arg>>

\* ReadConfig::xy_experiment_view
XYExperimentView(exp_type, hash_order) ==
    /\ ret' = [op |-> "xy_experiment_view", exp_type |-> exp_type,
               hash_order |-> hash_order,
               out |-> xy_experiment_view(Config, Db, exp_type, hash_order,
                                          StackFrames)]
    /\ UNCHANGED <<build, experiments, linear_results, xy_results, log_linear,
                   log_xy, dbs, fed, trip, arg>>

NextVirt ==
    \/ \E p \in LinearPoints : VirtAddLinear(p[1], p[2])
    \/ \E p \in XYPoints : VirtAddXY(p[1], p[2])
    \/ \E t \in LinearTypes : LinearExperimentView(t)
    \/ \E t \in XYTypes, o \in HashOrders : XYExperimentView(t, o)

SpecVirt == InitVirt /\ [][NextVirt]_vars

(***************************************************************************)
(* Virtual experiments: claims (checked under SpecVirt)                    *)
(***************************************************************************)
\* the descriptor a view of a virtual type resolves
Viewed ==
    IF ret.op = "linear_experiment_view"
    THEN find(Config.virtual_linear_experiments, ret.exp_type)
    ELSE IF ret.op = "xy_experiment_view"
         THEN find(Config.virtual_xy_experiments, ret.exp_type)
         ELSE None

\* the view of the source of the descriptor viewed, of the same shape
SourceView ==
    IF ret.op = "linear_experiment_view"
    THEN linear_experiment_view(Config, Db, Unwrap(Viewed).source_exp_type,
                                StackFrames)
    ELSE xy_experiment_view(Config, Db, Unwrap(Viewed).source_exp_type,
                            ret.hash_order, StackFrames)

\* no expression is given: every operation of the descriptor is None
AllAbsent(e) ==
    /\ e.tag_operation = None
    /\ "v_operation" \in DOMAIN e => e.v_operation = None
    /\ "x_operation" \in DOMAIN e => e.x_operation = None /\ e.y_operation = None

\* the source of a virtual XY experiment is itself an XY experiment
SameShape ==
    \/ ret.op = "linear_experiment_view"
    \/ /\ ret.op = "xy_experiment_view"
       /\ \/ Unwrap(Viewed).source_exp_type \in Config.xy_experiments
          \/ IsSome(find(Config.virtual_xy_experiments,
                         Unwrap(Viewed).source_exp_type))

\* set by set (line by line): as many points, with the same central values,
\* tags and bands
SamePoints(out, source) ==
    /\ Len(out) = Len(source)
    /\ \A i \in 1..Len(out) :
          /\ out[i].label = source[i].label
          /\ Len(out[i].values) = Len(source[i].values)
          /\ \A j \in 1..Len(out[i].values) :
                out[i].values[j] = source[i].values[j]

\* C21: a virtual experiment whose expressions are all absent yields, for
\* every set or line of its source, the same number of points with the same
\* central values, the same tags and the same confidence bands as the source
\* points.
C21_IdentityVirtual ==
    (/\ IsSome(Viewed)
     /\ ret.exp_type \notin Config.linear_experiments \cup Config.xy_experiments
     /\ AllAbsent(Unwrap(Viewed))
     /\ SameShape
     /\ SourceView.result = "Ok")
    => /\ ret.out.result = "Ok"
       /\ SamePoints(ret.out.sets, SourceView.sets)

\* what does hold: the statement for the virtual XY experiments over XY
\* lines, and for a virtual linear experiment whose source sets are empty
IdentityOverTaggedPoints ==
    (/\ IsSome(Viewed)
     /\ ret.exp_type \notin Config.linear_experiments \cup Config.xy_experiments
     /\ AllAbsent(Unwrap(Viewed))
     /\ SameShape
     /\ SourceView.result = "Ok"
     /\ \A i \in 1..Len(SourceView.sets) :
           \A j \in 1..Len(SourceView.sets[i].values) :
              SourceView.sets[i].values[j].tag /= None)
    => /\ ret.out.result = "Ok"
       /\ SamePoints(ret.out.sets, SourceView.sets)

\* an identity view of XY lines that hold a point with a band
IdentityOverTaggedPointsSeen ==
    /\ ret.op = "xy_experiment_view"
    /\ ret.exp_type = "Throughput Copy Of Copy"
    /\ ret.out.result = "Ok"
    /\ \E i \in 1..Len(ret.out.sets) :
          \E j \in 1..Len(ret.out.sets[i].values) :
             DOMAIN ret.out.sets[i].values[j].y_confidence /= {}

\* the current points of the sets of "Operational Latency", set by set, as
\* the store returns them
CurrentSets ==
    LET codes_labels == list_codes_labels_by_exp_type(experiments,
                                                      "Operational Latency")
    IN  [i \in 1..Len(codes_labels) |->
            [label  |-> codes_labels[i][2],
             values |-> read_linear_datapoints(linear_results, codes_labels[i][1])]]

\* the least central value of a non-empty vector of points
MinCentral(values) ==
    CHOOSE m \in {values[j].v[2] : j \in 1..Len(values)} :
        \A j \in 1..Len(values) : m <= values[j].v[2]

\* C22: the globals min, max and avg given to a virtual linear expression are
\* computed once per source set, over the central values of that set's
\* current points only; with v_operation = "v - min" every output value is
\* the source value minus the minimum central value of its own set (set A
\* with get = 12, put = 42 yields get = 0, put = 30).
C22_GlobalsPerSet ==
    (ret.op = "linear_experiment_view" /\ ret.exp_type = "Latency Over Min")
    => /\ ret.out.result = "Ok"
       /\ Len(ret.out.sets) = Len(CurrentSets)
       /\ \A i \in 1..Len(CurrentSets) :
             LET source == CurrentSets[i].values
                 out    == ret.out.sets[i].values
             IN  /\ ret.out.sets[i].label = CurrentSets[i].label
                 /\ Len(out) = Len(source)
                 /\ \A j \in 1..Len(source) :
                       \E k \in 1..Len(out) :
                          /\ out[k].group = source[j].group
                          /\ out[k].v = ValueInt(source[j].v[2] - MinCentral(source))

\* what does hold: the view of "Latency Over Min" is Ok exactly when no set
\* of the source holds a point, and panics otherwise
GlobalsOfUntaggedPoints ==
    (ret.op = "linear_experiment_view" /\ ret.exp_type = "Latency Over Min")
    => ret.out.result =
          IF \A i \in 1..Len(CurrentSets) : CurrentSets[i].values = <<>>
          THEN "Ok" ELSE "panic"

\* the globals of a virtual XY experiment are those of the line mapped: each
\* y of "Throughput Over Min" is the source y minus the least y of its line
GlobalsPerLine ==
    (ret.op = "xy_experiment_view" /\ ret.exp_type = "Throughput Over Min")
    => /\ ret.out.result = "Ok"
       /\ LET source == get_xy_experiment_lines(Db, "Throughput").sets
          IN  /\ Len(ret.out.sets) = Len(source)
              /\ \A i \in 1..Len(source) :
                    /\ Len(ret.out.sets[i].values) = Len(source[i].values)
                    /\ \A j \in 1..Len(source[i].values) :
                          ret.out.sets[i].values[j].y =
                             ValueInt(source[i].values[j].y[2]
                                      - CHOOSE m \in {source[i].values[k].y[2] :
                                                        k \in 1..Len(source[i].values)} :
                                          \A k \in 1..Len(source[i].values) :
                                             m <= source[i].values[k].y[2])

\* the value expression of the descriptor viewed, as a function of the y
\* substituted, on a line whose least and greatest y are ymin and ymax
YExpression(e, y, ymin, ymax) ==
    CASE e.y_operation = None             -> y
      [] e.y_operation = Some("y - ymin") -> y - ymin
      [] e.y_operation = Some("ymax - y") -> ymax - y

Decreasing(e) == e.y_operation = Some("ymax - y")

\* the bands of one output point against those of its source point
BandsFollow(e, out, source, ymin, ymax) ==
    /\ DOMAIN out.x_confidence = DOMAIN source.x_confidence
    /\ DOMAIN out.y_confidence = DOMAIN source.y_confidence
    /\ out.tag = source.tag
    /\ \A c \in DOMAIN source.y_confidence :
          LET lower == source.y_confidence[c][1][2]
              upper == source.y_confidence[c][2][2]
          IN  /\ out.y_confidence[c] =
                    <<ValueInt(YExpression(e, lower, ymin, ymax)),
                      ValueInt(YExpression(e, upper, ymin, ymax))>>
              /\ (~Decreasing(e) /\ lower <= upper)
                    => out.y_confidence[c][1][2] <= out.y_confidence[c][2][2]
              /\ (Decreasing(e) /\ lower < upper)
                    => out.y_confidence[c][1][2] > out.y_confidence[c][2][2]

\* C23: in a virtual transform with value expression f the output point
\* carries a band for exactly the bands of the source point, each output band
\* is (f(lower), f(upper)) evaluated with the tag and the globals of the
\* central value, and the two bounds are never re-ordered: lower <= upper is
\* kept when f is non-decreasing and inverted, without an error, when f is
\* decreasing.
C23_BandPropagation ==
    (/\ ret.op = "xy_experiment_view"
     /\ IsSome(Viewed)
     /\ ret.exp_type \notin Config.xy_experiments
     /\ SameShape
     /\ SourceView.result = "Ok")
    => /\ ret.out.result = "Ok"
       /\ Len(ret.out.sets) = Len(SourceView.sets)
       /\ \A i \in 1..Len(SourceView.sets) :
             LET source == SourceView.sets[i].values
                 out    == ret.out.sets[i].values
                 ys     == {source[k].y[2] : k \in 1..Len(source)}
             IN  /\ Len(out) = Len(source)
                 /\ \A j \in 1..Len(source) :
                       BandsFollow(Unwrap(Viewed), out[j], source[j],
                                   CHOOSE m \in ys : \A y \in ys : m <= y,
                                   SetMax(ys))

\* a view through a decreasing expression returned a band whose lower bound
\* is above its upper bound
C23_Witness ==
    /\ ret.op = "xy_experiment_view"
    /\ ret.exp_type = "Throughput Under Max"
    /\ ret.out.result = "Ok"
    /\ \E i \in 1..Len(ret.out.sets) :
          \E j \in 1..Len(ret.out.sets[i].values) :
             \E c \in DOMAIN ret.out.sets[i].values[j].y_confidence :
                ret.out.sets[i].values[j].y_confidence[c][1][2]
                   > ret.out.sets[i].values[j].y_confidence[c][2][2]

\* the source of the descriptor viewed is itself a virtual experiment of the
\* same shape
OverVirtual ==
    /\ IsSome(Viewed)
    /\ ret.exp_type \notin Config.linear_experiments \cup Config.xy_experiments
    /\ IF ret.op = "linear_experiment_view"
       THEN IsSome(find(Config.virtual_linear_experiments,
                        Unwrap(Viewed).source_exp_type))
       ELSE IsSome(find(Config.virtual_xy_experiments,
                        Unwrap(Viewed).source_exp_type))

\* the transform of the descriptor e over the points of one line of its
\* source, with the aggregates of those points
Transformed(e, out, points) ==
    LET ys == {points[k].y[2] : k \in 1..Len(points)}
    IN  /\ Len(out) = Len(points)
        /\ \A j \in 1..Len(points) :
              /\ out[j].x = points[j].x
              /\ out[j].tag = points[j].tag
              /\ out[j].y = ValueInt(YExpression(e, points[j].y[2],
                                                 CHOOSE m \in ys : \A y \in ys : m <= y,
                                                 SetMax(ys)))

\* C24: for a virtual experiment V2 whose source is a virtual experiment V1
\* over a concrete S, V1 is resolved first and the min, max and avg V2 sees
\* are those of V1's output: the result is V2's transform of V1's points.
C24_ChainedVirtual ==
    OverVirtual =>
        IF SourceView.result /= "Ok" THEN ret.out.result = SourceView.result
        ELSE /\ ret.out.result = "Ok"
             /\ Len(ret.out.sets) = Len(SourceView.sets)
             /\ \A i \in 1..Len(SourceView.sets) :
                   /\ ret.out.sets[i].label = SourceView.sets[i].label
                   /\ IF ret.op = "xy_experiment_view"
                      THEN Transformed(Unwrap(Viewed), ret.out.sets[i].values,
                                       SourceView.sets[i].values)
                      ELSE /\ SourceView.sets[i].values = <<>>
                           /\ ret.out.sets[i].values = <<>>

\* "Throughput Chain" was viewed over a line of two points whose aggregates
\* after the first transform differ from those of the stored points
C24_Witness ==
    /\ ret.op = "xy_experiment_view"
    /\ ret.exp_type = "Throughput Chain"
    /\ ret.out.result = "Ok"
    /\ \E i \in 1..Len(ret.out.sets) :
          /\ Len(ret.out.sets[i].values) = 2
          /\ ret.out.sets[i].values[1].y = ValueInt(10)
          /\ ret.out.sets[i].values[2].y = ValueInt(0)

\* the current points of one group over all sets of "Operational Latency"
PooledPoints(group) == pool(CurrentSets, group)

\* the groups that occur in a set of "Operational Latency"
GroupsMet == {g \in GroupSet : PooledPoints(g) /= <<>>}

\* C25: when a virtual XY experiment sources from a linear experiment, the
\* result has exactly one line per distinct group name of the source's sets,
\* labelled with the group name, holding one XY point per source datapoint of
\* that group across all sets; with default expressions each point has
\* x = the source tag and y = the source value.
C25_LinesFromGroups ==
    (ret.op = "xy_experiment_view" /\ ret.exp_type = "Latency Lines")
    => /\ ret.out.result = "Ok"
       /\ Len(ret.out.sets) = Cardinality(GroupsMet)
       /\ \A g \in GroupsMet :
             \E i \in 1..Len(ret.out.sets) :
                /\ ret.out.sets[i].label = g
                /\ Len(ret.out.sets[i].values) = Len(PooledPoints(g))
                /\ \A j \in 1..Len(PooledPoints(g)) :
                      /\ ret.out.sets[i].values[j].y = PooledPoints(g)[j].v
                      /\ Some(ret.out.sets[i].values[j].x[2]) = PooledPoints(g)[j].tag

\* what does hold: the view of "Latency Lines" has no line while the source
\* sets are empty, and panics as soon as one of them holds a point
LinesOfUntaggedPoints ==
    (ret.op = "xy_experiment_view" /\ ret.exp_type = "Latency Lines")
    => IF GroupsMet = {}
       THEN ret.out = [result |-> "Ok", sets |-> <<>>]
       ELSE ret.out.result = "panic"

(***************************************************************************)
(* Virtual experiments: the resolution call by call (SpecResolve)          *)
(***************************************************************************)
\* the descriptor a frame of the resolution works on
Descriptor(frame) ==
    Unwrap(find(IF frame.shape = "linear"
                THEN Config.virtual_linear_experiments
                ELSE Config.virtual_xy_experiments, frame.exp_type))

\* the branch the if / else if chain of a frame takes on its source type:
\* the shape of the source and whether it is virtual, concrete or missing
source_branch(frame) ==
    LET source == Descriptor(frame).source_exp_type
    IN  IF frame.shape = "xy" /\ IsSome(find(Config.virtual_xy_experiments, source))
        THEN [kind |-> "virtual", shape |-> "xy"]
        ELSE IF IsSome(find(Config.virtual_linear_experiments, source))
        THEN [kind |-> "virtual", shape |-> "linear"]
        ELSE IF source \in Config.linear_experiments
        THEN [kind |-> "concrete", shape |-> "linear"]
        ELSE IF frame.shape = "xy" /\ source \in Config.xy_experiments
        THEN [kind |-> "concrete", shape |-> "xy"]
        ELSE [kind |-> "missing", shape |-> "none"]

\* what a frame makes of the sets (lines) its source returned:  source_sets?
\* and then the closure of the branch
after_source(frame, shape, source_sets, hash_order) ==
    IF source_sets.result /= "Ok" THEN source_sets
    ELSE IF frame.shape = "linear"
         THEN map_linear_sets(source_sets.sets, Descriptor(frame))
         ELSE IF shape = "xy"
              THEN map_xy_lines(source_sets.sets, Descriptor(frame))
              ELSE map_linear_sets_into_xy_lines(source_sets.sets,
                                                 Descriptor(frame), hash_order)

\* the nested call of a frame on a virtual source with a cycle test first:
\* a source that is already being resolved is reported as an error
call_source_checked(stack, callee) ==
    IF \E i \in 1..Len(stack) : stack[i] = callee
    THEN [status |-> "returning", stack |-> stack,
          out |-> [result |-> "CyclicExperiment"]]
    ELSE IF Len(stack) >= StackFrames
         THEN [status |-> "aborted", stack |-> stack,
               out |-> [result |-> "stack overflow"]]
         ELSE [status |-> "calling", stack |-> Append(stack, callee),
               out |-> [result |-> "none"]]

\* the nested call of a frame on a virtual source: one more frame, whatever
\* the frames below are; a stack that holds no further frame ends the process
call_source(stack, callee) ==
    IF Len(stack) >= StackFrames
    THEN [status |-> "aborted", stack |-> stack,
          out |-> [result |-> "stack overflow"]]
    ELSE [status |-> "calling", stack |-> Append(stack, callee),
          out |-> [result |-> "none"]]

\* the stores a resolution runs over: empty, one linear point, two points on
\* an XY line
ResolveStores ==
    {[linear |-> <<>>, xy |-> <<>>],
     [linear |-> add_linear_row(<<>>, "linear_lat_a", linear_point("get", 12, <<>>)),
      xy     |-> <<>>],
     [linear |-> <<>>,
      xy     |-> add_xy_row(add_xy_row(<<>>, "tput_1", xy_point(0, <<1, 10>>, <<10>>)),
                            "tput_1", xy_point(1, <<2, 20>>, <<>>))]}

\* the virtual experiments a view may resolve
VirtualFrames ==
    {[shape |-> "linear", exp_type |-> Config.virtual_linear_experiments[i].exp_type] :
        i \in 1..Len(Config.virtual_linear_experiments)}
    \cup {[shape |-> "xy", exp_type |-> Config.virtual_xy_experiments[i].exp_type] :
            i \in 1..Len(Config.virtual_xy_experiments)}

\* linear_experiment_view / xy_experiment_view has found a virtual descriptor
\* and calls its resolution
InitResolve ==
    /\ build = "handles"
    /\ experiments = InitialExperiments
    /\ \E s \in ResolveStores : linear_results = s.linear /\ xy_results = s.xy
    /\ log_linear = <<>>
    /\ log_xy = <<>>
    /\ dbs = InitialDbs
    /\ fed = NotBuilt
    /\ trip = NoTrip
    /\ ret = NoCall
    /\ \E f \in VirtualFrames, o \in HashOrders :
          arg = [fn |-> "resolve", viewed |-> f, hash_order |-> o,
                 status |-> "calling", stack |-> <<f>>, returned |-> "none",
                 out |-> [result |-> "none"]]

Top == arg.stack[Len(arg.stack)]

Pop == SubSeq(arg.stack, 1, Len(arg.stack) - 1)

\* the frame on top finds a virtual source and calls the resolution of it
ResolveVirtualSource ==
    /\ arg.fn = "resolve" /\ arg.status = "calling"
    /\ source_branch(Top).kind = "virtual"
    /\ LET c == call_source(arg.stack,
                            [shape    |-> source_branch(Top).shape,
                             exp_type |-> Descriptor(Top).source_exp_type])
       IN  arg' = [arg EXCEPT !.status = c.status, !.stack = c.stack, !.out = c.out]
    /\ UNCHANGED <<build, experiments, linear_results, xy_results, log_linear,
                   log_xy, dbs, fed, trip, ret>>

\* the frame on top finds a concrete source, reads its sets (lines), maps
\* them and returns
ResolveConcreteSource ==
    /\ arg.fn = "resolve" /\ arg.status = "calling"
    /\ source_branch(Top).kind = "concrete"
    /\ LET shape == source_branch(Top).shape
           source == Descriptor(Top).source_exp_type
           sets == IF shape = "linear"
                   THEN get_linear_experiment_sets(Db, source)
                   ELSE get_xy_experiment_lines(Db, source)
       IN  arg' = [arg EXCEPT
                     !.out = after_source(Top, shape, sets, arg.hash_order),
                     !.returned = Top.shape,
                     !.stack = Pop,
                     !.status = IF Pop = <<>> THEN "done" ELSE "returning"]
    /\ UNCHANGED <<build, experiments, linear_results, xy_results, log_linear,
                   log_xy, dbs, fed, trip, ret>>

\* the frame on top finds no experiment of its source type
ResolveMissingSource ==
    /\ arg.fn = "resolve" /\ arg.status = "calling"
    /\ source_branch(Top).kind = "missing"
    /\ arg' = [arg EXCEPT
                 !.out = [result |-> "ExperimentNotFound"],
                 !.returned = Top.shape,
                 !.stack = Pop,
                 !.status = IF Pop = <<>> THEN "done" ELSE "returning"]
    /\ UNCHANGED <<build, experiments, linear_results, xy_results, log_linear,
                   log_xy, dbs, fed, trip, ret>>

\* the nested call has returned to the frame on top, which maps what it got
\* (or passes the failure on) and returns
ResolveReturn ==
    /\ arg.fn = "resolve" /\ arg.status = "returning"
    /\ arg' = [arg EXCEPT
                 !.out = after_source(Top, arg.returned, arg.out, arg.hash_order),
                 !.returned = Top.shape,
                 !.stack = Pop,
                 !.status = IF Pop = <<>> THEN "done" ELSE "returning"]
    /\ UNCHANGED <<build, experiments, linear_results, xy_results, log_linear,
                   log_xy, dbs, fed, trip, ret>>

NextResolve ==
    \/ ResolveVirtualSource
    \/ ResolveConcreteSource
    \/ ResolveMissingSource
    \/ ResolveReturn

SpecResolve == InitResolve /\ [][NextResolve]_vars

\* the chain of source types from a frame, up to n links, comes back to a
\* virtual experiment it has passed
RECURSIVE ChainFrom(_, _)
ChainFrom(frame, n) ==
    IF n = 0 \/ source_branch(frame).kind /= "virtual" THEN <<frame>>
    ELSE <<frame>> \o ChainFrom([shape    |-> source_branch(frame).shape,
                                 exp_type |-> Descriptor(frame).source_exp_type],
                                n - 1)

Cyclic(frame) ==
    LET chain == ChainFrom(frame, Cardinality(VirtualFrames))
    IN  \E i, j \in 1..Len(chain) : i < j /\ chain[i] = chain[j]

EndedByChain ==
    \/ /\ arg.status = "done"
       /\ ~Cyclic(arg.viewed)
       /\ arg.out.result \in {"Ok", "ExperimentNotFound", "panic"}
       /\ arg.out = IF arg.viewed.shape = "linear"
                    THEN linear_experiment_view(Config, Db, arg.viewed.exp_type,
                                                StackFrames)
                    ELSE xy_experiment_view(Config, Db, arg.viewed.exp_type,
                                            arg.hash_order, StackFrames)
    \/ /\ arg.status = "aborted"
       /\ Cyclic(arg.viewed)
       /\ Len(arg.stack) = StackFrames

\* the resolution has ended: it returned to the view, or the process was
\* aborted
Ended == arg.status \in {"done", "aborted"}

\* a variant of the resolution: the frames the stack can still take while the
\* calls go down, the frames left to return from on the way up
Variant ==
    CASE arg.status = "calling"   -> 2 * StackFrames + 1 - Len(arg.stack)
      [] arg.status = "returning" -> Len(arg.stack)
      [] Ended                    -> 0

\* a resolution that has not ended can take a step: one of the branches of
\* the frame on top applies, or a nested call has returned to it
CanStep ==
    \/ Ended
    \/ arg.status = "calling"
          /\ arg.stack /= <<>>
          /\ source_branch(Top).kind \in {"virtual", "concrete", "missing"}
    \/ arg.status = "returning" /\ arg.stack /= <<>>

\* every step brings the end nearer
StepTowardsEnd ==
    /\ Variant' < Variant
    /\ Variant' >= 0

\* a resolution that has not ended can step, and one that has ended has
\* ended as the chain followed requires
EndsByChain ==
    /\ CanStep
    /\ Ended => EndedByChain

Writers == {1, 2}

OtherWriter(w) == 3 - w

\* a writer between two adds
IdleWriter == [pc |-> "idle", code |-> "", group |-> "", v |-> 0, version |-> 0,
               read_from |-> <<>>, raced |-> FALSE, result |-> "none"]

InitRace ==
    /\ build = "handles"
    /\ experiments = InitialExperiments
    /\ linear_results = <<>>
    /\ xy_results = <<>>
    /\ log_linear = <<>>
    /\ log_xy = <<>>
    /\ dbs = InitialDbs
    /\ fed = NotBuilt
    /\ trip = NoTrip
    /\ ret = NoCall
    /\ arg = [fn |-> "add_linear_datapoint", started |-> 0, first |-> 0,
              writers |-> [w \in Writers |-> IdleWriter]]

\* the other writer has read its version from the table as it is now, for the
\* same key, and has not inserted yet
ReadsWith(w, code, group) ==
    LET o == arg.writers[OtherWriter(w)]
    IN  /\ o.pc = "read"
        /\ o.code = code
        /\ o.group = group
        /\ o.read_from = linear_results

\* first statement of add_linear_datapoint: get_new_linear_version
RaceReadVersion(w, code, group, v) ==
    /\ arg.writers[w].pc = "idle"
    /\ arg.started < MaxRows
    /\ LET with == ReadsWith(w, code, group)
           mine == [pc |-> "read", code |-> code, group |-> group, v |-> v,
                    version |-> get_new_linear_version(linear_results, code, group),
                    read_from |-> linear_results, raced |-> with,
                    result |-> "none"]
       IN  arg' = [arg EXCEPT
                     !.started = @ + 1,
                     !.first = IF with THEN 0 ELSE @,
                     !.writers = [x \in Writers |->
                                    IF x = w THEN mine
                                    ELSE IF with THEN [@[x] EXCEPT !.raced = TRUE]
                                    ELSE @[x]]]
    /\ UNCHANGED <<build, experiments, linear_results, xy_results, log_linear,
                   log_xy, dbs, fed, trip, ret>>

\* second statement of add_linear_datapoint: the insert, with the version
\* read by the first; execute(..)? returns the error of a rejected insert
RaceInsert(w) ==
    /\ arg.writers[w].pc = "read"
    /\ LET me    == arg.writers[w]
           after == insert_row(linear_results,
                               [experiment_code |-> me.code, key |-> me.group,
                                version |-> me.version, v_int |-> me.v])
       IN  /\ linear_results' = after
           /\ arg' = [arg EXCEPT
                        !.first = IF me.raced /\ @ = 0 THEN w ELSE @,
                        !.writers[w].pc = "idle",
                        !.writers[w].result =
                            IF after = linear_results THEN "Err" ELSE "Ok"]
    /\ UNCHANGED <<build, experiments, xy_results, log_linear, log_xy, dbs,
                   fed, trip, ret>>

NextRace ==
    \/ \E w \in Writers, key \in LinearKeys, v \in Values :
          RaceReadVersion(w, key[1], key[2], v)
    \/ \E w \in Writers : RaceInsert(w)

SpecRace == InitRace /\ [][NextRace]_vars

\* two adds on the same key have both read the version to allocate before
\* either inserted, with no write between the two reads, and both have
\* executed their insert
RaceOver ==
    /\ arg.fn = "add_linear_datapoint"
    /\ \A w \in Writers : /\ arg.writers[w].pc = "idle"
                          /\ arg.writers[w].raced
                          /\ arg.writers[w].result /= "none"
    /\ arg.first \in Writers

\* rows of the raced key that carry the version writer w read
RowsOfVersion(w) ==
    {i \in KeyRows(linear_results, arg.writers[w].code, arg.writers[w].group) :
        linear_results[i].version = arg.writers[w].version}

\* C27 as stated: two adds on the same key that both read the version before
\* either inserts are assigned the same version number, and the key ends
\* with two rows carrying that version.
C27_TwoRowsSameVersion ==
    RaceOver =>
        /\ arg.writers[1].version = arg.writers[2].version
        /\ Cardinality(RowsOfVersion(1)) = 2

\* C27: two adds on the same key that both read the version before either
\* inserts (no write in between) read the same version number; the insert
\* that runs first stores its row, the other is rejected by the primary key
\* (experiment_code, v_group, version) and its add returns the error; the
\* key ends with one row of that version, the one of the first insert.
C27_SecondInsertRejected ==
    RaceOver =>
        LET first  == arg.writers[arg.first]
            second == arg.writers[OtherWriter(arg.first)]
        IN  /\ first.version = second.version
            /\ first.result = "Ok"
            /\ second.result = "Err"
            /\ Cardinality(RowsOfVersion(1)) = 1
            /\ \A i \in RowsOfVersion(1) : linear_results[i].v_int = first.v
            /\ PrimaryKeyOk(linear_results)

\* a race is over, and the two writers had different values to store
C27_Witness ==
    /\ RaceOver
    /\ arg.writers[1].v /= arg.writers[2].v
    /\ arg.writers[arg.first].version > 1

(***************************************************************************)
(* Bands through the store: add, then current (SpecKeep)                   *)
(***************************************************************************)
\* the subsets of the four bands a datapoint is added with
BandSubsets == SUBSET {ColumnGroups[i] : i \in 1..Len(ColumnGroups)}

\* the bounds of band c around an integer central value: a different pair
\* for every band, the 1 / 99 band the widest
BoundsOf(central, c) == Left(central - (26 - c), central + (26 - c))

\* datapoint with add_confidence(c, ..) called for the bands of subset, from
\* ColumnGroups[i] on
RECURSIVE with_bands(_, _, _, _)
with_bands(datapoint, which, subset, i) ==
    IF i > Len(ColumnGroups) THEN datapoint
    ELSE with_bands(IF ColumnGroups[i] \in subset
                    THEN lib_add_confidence(
                             datapoint, which, ColumnGroups[i],
                             BoundsOf(Central(datapoint, which)[2],
                                      ColumnGroups[i])).datapoint
                    ELSE datapoint,
                    which, subset, i + 1)

InitKeep ==
    /\ build = "handles"
    /\ experiments = InitialExperiments
    /\ linear_results = <<>>
    /\ xy_results = <<>>
    /\ log_linear = <<>>
    /\ log_xy = <<>>
    /\ dbs = InitialDbs
    /\ fed = NotBuilt
    /\ trip = NoTrip
    /\ ret = NoCall
    /\ arg = NoArg

\* LinearSetHandle::add_datapoint of a datapoint with the bands of subset
KeepAddLinear(code, group, v, subset) ==
    /\ NRows < MaxPoints
    /\ xy_results = <<>>
    /\ LET datapoint == with_bands(LinearDatapoint_new(group, ValueInt(v)),
                                   "v", subset, 1)
       IN  /\ linear_results' = add_linear_row(linear_results, code, datapoint)
           /\ ret' = [op |-> "add_datapoint", shape |-> "linear",
                      exp_code |-> code, key |-> group, datapoint |-> datapoint]
    /\ UNCHANGED <<build, experiments, xy_results, log_linear, log_xy, dbs,
                   fed, trip, arg>>

\* XYLineHandle::add_datapoint of a tagged datapoint with the bands of subset
\* on both axes
KeepAddXY(code, t, xy, subset) ==
    /\ NRows < MaxPoints
    /\ linear_results = <<>>
    /\ LET datapoint ==
               with_tag(with_bands(
                            with_bands(XYDatapoint_new(ValueInt(xy[1]),
                                                       ValueInt(xy[2])),
                                       "x", subset, 1),
                            "y", subset, 1), t)
       IN  /\ xy_results' = add_xy_row(xy_results, code, datapoint)
           /\ ret' = [op |-> "add_datapoint", shape |-> "xy",
                      exp_code |-> code, key |-> t, datapoint |-> datapoint]
    /\ UNCHANGED <<build, experiments, linear_results, log_linear, log_xy, dbs,
                   fed, trip, arg>>

\* get_linear_datapoints / get_xy_datapoints of the set (line) just written:
\* the current datapoint of every key
KeepCurrent ==
    /\ ret.op = "add_datapoint"
    /\ ret' = [op |-> "current", shape |-> ret.shape, exp_code |-> ret.exp_code,
               key |-> ret.key, added |-> ret.datapoint,
               out |-> IF ret.shape = "linear"
                       THEN read_linear_datapoints(linear_results, ret.exp_code)
                       ELSE read_xy_datapoints(xy_results, ret.exp_code)]
    /\ UNCHANGED <<build, experiments, linear_results, xy_results, log_linear,
                   log_xy, dbs, fed, trip, arg>>

NextKeep ==
    \/ \E group \in GroupSet, subset \in BandSubsets :
          KeepAddLinear("linear_lat_a", group, 42, subset)
    \/ \E t \in 0..1, subset \in BandSubsets :
          KeepAddXY("tput_1", t, <<42, 42>>, subset)
    \/ KeepCurrent

SpecKeep == InitKeep /\ [][NextKeep]_vars

\* the datapoints of a current read that stand for the key just written
ReadBack ==
    {ret.out[i] : i \in {j \in 1..Len(ret.out) :
        IF ret.shape = "linear" THEN ret.out[j].group = ret.key
        ELSE ret.out[j].tag = Some(ret.key)}}

\* the bands of a datapoint, per axis
BandsOn(datapoint, shape) ==
    IF shape = "linear" THEN <<datapoint.v_confidence>>
    ELSE <<datapoint.x_confidence, datapoint.y_confidence>>

\* C28: a datapoint added with any subset of the bands 1, 5, 10, 25 reads
\* back through current with exactly the same set of bands and the same
\* (lower, upper) bounds for each band.
C28_BandsRoundTrip ==
    ret.op = "current" =>
        /\ Cardinality(ReadBack) = 1
        /\ \A datapoint \in ReadBack :
              BandsOn(datapoint, ret.shape) = BandsOn(ret.added, ret.shape)

\* what comes back instead: the bands 1 and 5 as written; under band 10 the
\* bounds written for band 25 when there were any, else those written for
\* band 10; never a band 25
BandsAsRead(bands) ==
    LET ten == IF "TwentyFive" \in DOMAIN bands THEN {"TwentyFive"}
               ELSE DOMAIN bands \cap {"Ten"}
    IN  [c \in (DOMAIN bands \cap {"One", "Five"})
               \cup (IF ten = {} THEN {} ELSE {"Ten"}) |->
            IF c = "Ten" THEN bands[CHOOSE k \in ten : TRUE] ELSE bands[c]]

\* the bands read back are those of BandsAsRead, on every axis
BandsReadBack ==
    ret.op = "current" =>
        /\ Cardinality(ReadBack) = 1
        /\ \A datapoint \in ReadBack :
              \A a \in 1..Len(BandsOn(datapoint, ret.shape)) :
                  BandsOn(datapoint, ret.shape)[a]
                      = BandsAsRead(BandsOn(ret.added, ret.shape)[a])

(***************************************************************************)
(* revert at the edges: no version given on a reverted key, a version the  *)
(* key does not hold (Spec)                                                *)
(***************************************************************************)
\* what revert(code, key, none) may change between two tables when it only
\* deactivates: nothing, or the sign of the one positive row of the key that
\* holds the maximum version
OnlyDeactivates(before, after, code, key) ==
    /\ Len(after) = Len(before)
    /\ \A i \in 1..Len(before) :
         after[i] /= before[i] =>
             /\ i \in KeyRows(before, code, key)
             /\ before[i].version > 0
             /\ \A j \in KeyRows(before, code, key) :
                    before[j].version <= before[i].version
             /\ after[i] = [before[i] EXCEPT !.version = -before[i].version]
    /\ Cardinality({i \in 1..Len(before) : after[i] /= before[i]}) <= 1
    /\ (\A i \in KeyRows(before, code, key) : before[i].version < 0)
           => after = before

\* C29: revert(key, none) only ever deactivates: it changes at most one row
\* of the key, turning the positive row that holds the maximum version into
\* its negation; it never turns a negative version positive and leaves a key
\* whose rows are all negative unchanged.
C29_RevertNoneOnlyDeactivates ==
    /\ \A k \in LinearKeys :
         OnlyDeactivates(linear_results,
                         revert_linear_datapoint(linear_results, k[1], k[2], None),
                         k[1], k[2])
    /\ \A k \in XYKeys :
         OnlyDeactivates(xy_results,
                         revert_xy_datapoint(xy_results, k[1], k[2], None),
                         k[1], k[2])

\* on a key that holds a positive version revert(key, none) does only
\* deactivate
DeactivatesActiveKey ==
    /\ \A k \in LinearKeys :
         (\E i \in KeyRows(linear_results, k[1], k[2]) :
              linear_results[i].version > 0)
         => OnlyDeactivates(linear_results,
                revert_linear_datapoint(linear_results, k[1], k[2], None),
                k[1], k[2])
    /\ \A k \in XYKeys :
         (\E i \in KeyRows(xy_results, k[1], k[2]) : xy_results[i].version > 0)
         => OnlyDeactivates(xy_results,
                revert_xy_datapoint(xy_results, k[1], k[2], None),
                k[1], k[2])

\* the key holds no row whose |version| is v
NoRowOfVersion(table, code, key, v) ==
    \A i \in KeyRows(table, code, key) : Abs(table[i].version) /= v

\* to_version arguments beyond the versions a behaviour can write
BeyondVersions == 0..(MaxRows + 1)

\* C30 as stated: revert(key, to_version = v) where no row of the key has
\* |version| = v leaves every row unchanged.
C30_RevertToAbsentIsNoOp ==
    /\ \A k \in LinearKeys, v \in BeyondVersions :
         NoRowOfVersion(linear_results, k[1], k[2], v)
         => revert_linear_datapoint(linear_results, k[1], k[2], Some(v))
                = linear_results
    /\ \A k \in XYKeys, v \in BeyondVersions :
         NoRowOfVersion(xy_results, k[1], k[2], v)
         => revert_xy_datapoint(xy_results, k[1], k[2], Some(v)) = xy_results

\* what revert(code, key, to_version = v) does when the key holds no row of
\* version v: the rows of the key with version > v are negated, nothing else
\* changes, and the call returns Ok
NegatesNewer(before, after, code, key, v) ==
    /\ Len(after) = Len(before)
    /\ \A i \in 1..Len(before) :
         after[i] = IF i \in KeyRows(before, code, key) /\ before[i].version > v
                    THEN [before[i] EXCEPT !.version = -before[i].version]
                    ELSE before[i]
    /\ revert_result(before, code, key, Some(v)) = "Ok"
    /\ (\A i \in KeyRows(before, code, key) : Abs(before[i].version) < v)
           => after = before

\* C30: revert(key, to_version = v) where no row of the key has |version| = v
\* reactivates nothing and negates every row of the key whose version is
\* greater than v: with v greater than the highest version written it leaves
\* every row unchanged, with v = 0 it deactivates every active row of the
\* key, so that current resolves the key to its row of maximum (negative)
\* version.
C30_RevertToAbsentNegatesNewer ==
    /\ \A k \in LinearKeys, v \in BeyondVersions :
         NoRowOfVersion(linear_results, k[1], k[2], v)
         => NegatesNewer(linear_results,
                revert_linear_datapoint(linear_results, k[1], k[2], Some(v)),
                k[1], k[2], v)
    /\ \A k \in XYKeys, v \in BeyondVersions :
         NoRowOfVersion(xy_results, k[1], k[2], v)
         => NegatesNewer(xy_results,
                revert_xy_datapoint(xy_results, k[1], k[2], Some(v)),
                k[1], k[2], v)

\* a key with versions 1 and 2 active and different values: revert to version
\* 0 deactivates both and current falls back from the second value to the
\* first; revert to version 3 changes nothing
C30_Witness ==
    \E k \in LinearKeys :
        /\ VersionSeq(linear_results, k[1], k[2]) = <<1, 2>>
        /\ log_linear[1].value /= log_linear[2].value
        /\ LinearResolvesTo(linear_results, k[1], k[2], log_linear[2].value)
        /\ LET t == revert_linear_datapoint(linear_results, k[1], k[2], Some(0))
           IN  /\ VersionSeq(t, k[1], k[2]) = <<-1, -2>>
               /\ LinearResolvesTo(t, k[1], k[2], log_linear[1].value)
        /\ revert_linear_datapoint(linear_results, k[1], k[2], Some(3))
               = linear_results

====
